---- MODULE Spec2Model ----
(***************************************************************************)
(* Model of the MQTT network simulator.                                    *)
(*                                                                         *)
(*  - MQTTNetwork (sim/network/mq_network.py) with the counters of         *)
(*    MetricCollector (sim/metrics/collector.py) it drives.  Every public  *)
(*    method is one action; the simpy processes it spawns (_schedule_ack,  *)
(*    _failover_proc) are entries of the event list `events`.              *)
(*                                                                         *)
(*  - MqttBroker (src/mqtt/broker.py): its methods up to their first yield *)
(*    are actions, and what follows a yield runs when the timeout entry of *)
(*    `procs` comes due, oldest first among those due together.  Its clock *)
(*    counts hundredths of a second.                                       *)
(*                                                                         *)
(*  - MACScheduler and DutyCycleTracker (sim/mac/scheduler.py) with the    *)
(*    MQTTClient process that calls them (sim/mqtt/client.py): a client's  *)
(*    position is its entry of `proc`; in these scenarios one unit of      *)
(*    `now` is a millisecond and the links have no latency.                *)
(*                                                                         *)
(* Elsewhere simulated time is counted in whole seconds, and a latency of  *)
(* one unit is 1000 ms.                                                    *)
(* Topics are tuples of characters so that _match is computed              *)
(* on the text as the code does.  A message object lives in `heap` and is  *)
(* referred to by its index, because the queue, the in-flight maps and the *)
(* retained map share the same Python object.  msg_id 0 stands for None.   *)
(***************************************************************************)
EXTENDS Integers, Sequences, FiniteSets, TLC

\* ---------------------------------------------------------------- bounds
MaxMsgs == 2
MaxObjs == 2
MaxTime == 1
MaxCapacity == 2
MaxDeliveries == 2
MaxSnapshots == 1
MaxDown == 1
MaxDups == 2
\* the horizon of the keep-alive scenarios, long enough for a timeout and
\* the reconnect that follows it
MaxKeepAliveTime == 4

\* bounds of the overlapping outages: the horizon and the longest outage
MaxOverlapTime == 4
MaxRecover == 2
\* deliveries in the retransmission scenarios: one more than retry_limit
MaxRedeliveries == 4

\* ------------------------------------------------------- scenario inputs
Clients == {"c1", "c2"}
TopicA == <<"a">>
FilterA == <<"a", "/", "#">>
Gateways == {"gw1"}
NoGateway == "none"
NoTopic == <<>>
\* rng.random() scaled to percent: the two outcomes that decide every roll
RandomOutcomes == {0, 99}
\* the keep_alive every client passes to connect, in time units
KeepAlive == 1
JitterS == 1
BackoffMin == 1
BackoffMax == 2

\* ------------------------------------------------------ program constants
retry_limit == 3
RetransmitDelay == 2

\* ---------------------------------------------------------------- helpers
Min(a, b) == IF a <= b THEN a ELSE b

Put(f, k, v) == [x \in (DOMAIN f) \cup {k} |-> IF x = k THEN v ELSE f[x]]

Drop(f, k) == [x \in (DOMAIN f) \ {k} |-> f[x]]

EndsWith(s, suf) ==
    Len(s) >= Len(suf) /\ SubSeq(s, Len(s) - Len(suf) + 1, Len(s)) = suf

StartsWith(s, pre) == Len(s) >= Len(pre) /\ SubSeq(s, 1, Len(pre)) = pre

\* a matcher that also takes a bare "#" for every topic
MatchBareHash(subscription, topic) ==
    \/ subscription = topic
    \/ subscription = <<"#">>
    \/ /\ EndsWith(subscription, <<"/", "#">>)
       /\ StartsWith(topic, SubSeq(subscription, 1, Len(subscription) - 2))

Match(subscription, topic) ==
    IF subscription = topic THEN TRUE
    ELSE IF EndsWith(subscription, <<"/", "#">>)
         THEN StartsWith(topic, SubSeq(subscription, 1, Len(subscription) - 2))
         ELSE FALSE

\* -------------------------------------------------------------- variables
VARIABLES
    now,                \* env.now
    events,             \* simpy event list: pending process resumptions
    config,             \* SimulationConfig: broker.queue_capacity, wan_loss_rate
    sessions,           \* MQTTNetwork.sessions, in dict order
    retained,           \* MQTTNetwork.retained: topic -> message
    broker_queue,       \* MQTTNetwork.broker_queue
    msg_counter,        \* MQTTNetwork.msg_counter
    backoff_state,      \* MQTTNetwork.backoff_state
    failover_active,    \* MQTTNetwork.failover_active
    heap,               \* the MQTTMessage objects created so far
    send_events,        \* MetricCollector.send_events
    delivery_events,    \* MetricCollector.delivery_events
    duplicate_events,   \* MetricCollector.duplicate_events
    queue_drops,        \* MetricCollector.queue_drops
    broker_queue_depth, \* MetricCollector.broker_queue_depth
    client_states,      \* MetricCollector.client_states
    snapshots,          \* MetricCollector.snapshots
    delivered,          \* history: deliveries recorded by the last step
    offline_pubs,       \* history: messages published while disconnected
    stale_pubs,         \* history: the same, before the most recent clean connect
    since_pq,           \* history: what was offered since the last process_queue
    due_reconnects,     \* history: keep-alive timeouts not yet followed by a reconnect
    track               \* which history the specification maintains

netvars == <<now, events, config, sessions, retained, broker_queue,
             msg_counter, backoff_state, failover_active, heap,
             send_events, delivery_events, duplicate_events, queue_drops,
             broker_queue_depth, client_states, snapshots>>

histvars == <<delivered, offline_pubs, stale_pubs, since_pq, due_reconnects,
              track>>

\* MqttBroker (src/src/mqtt/broker.py) and the simpy environment it runs in
VARIABLES
    is_alive,            \* MqttBroker.is_alive
    last_failover_start, \* MqttBroker.last_failover_start
    last_failover_end,   \* MqttBroker.last_failover_end
    subscriptions,       \* MqttBroker.subscriptions: topic filter -> client ids
    broker_retained,     \* MqttBroker.retained: topic -> payload
    client_queues,       \* MqttBroker.client_queues: client id -> queued messages
    connected_clients,   \* MqttBroker.connected_clients (its keys)
    env_now,             \* env.now of the broker's environment
    procs,               \* processes waiting in a timeout, in scheduling order
    published,           \* MetricsCollector._published: number of ids recorded
    received,            \* on_message calls so far: {<<client id, message id>>}
    crashes,             \* number of failover_sequence processes started
    owed,                \* history: queue found by the last persistent connect
    replayed,            \* history: messages of owed handed to on_message since
    wiped,               \* history: messages discarded by clean connects
    left                 \* history: queue left behind by the last connect

brokervars == <<is_alive, last_failover_start, last_failover_end,
                subscriptions, broker_retained, client_queues,
                connected_clients, env_now, procs, published, received,
                crashes, owed, replayed, wiped, left>>

\* MACScheduler, and the MQTTClient processes
VARIABLES
    duty_cycle_trackers, \* MACScheduler.duty_cycle_trackers: node id -> tracker
    proc,                \* the position of each MQTTClient.run process
    tx_result,           \* the MACResult each client's last tx returned
    energy,              \* MQTTClient.energy: tx_energy_mj, sleep_energy_mj
    radio_tx_s,          \* MetricCollector.radio_tx_s
    radio_sleep_s,       \* MetricCollector.radio_sleep_s
    energy_mj            \* MetricCollector.energy_mj

macvars == <<duty_cycle_trackers, proc, tx_result, energy, radio_tx_s,
             radio_sleep_s, energy_mj>>

\* a call of the static method MQTTNetwork._match
VARIABLES
    match_subscription,  \* its argument subscription
    match_topic,         \* its argument topic
    match_return         \* <<>> before the call, then <<the value returned>>

callvars == <<match_subscription, match_topic, match_return>>

\* ExperimentRunner.run and the processes it starts
VARIABLES
    run_state,           \* "none", "running", "returned" or "raised"
    stop_requested,      \* what the caller's stop_flag() returns
    broker_process,      \* the position of broker_process
    stopper,             \* the position of stopper
    run_result,          \* ExperimentResult.snapshots, once run has returned
    simpy_exit,          \* what env.exit() does in the simpy that is installed
    stop_at,             \* history: the time the flag was set
    stop_sends,          \* history: send_events when the flag was set
    seen_len             \* history: snapshots taken when the flag was first read as set

runvars == <<run_state, stop_requested, broker_process, stopper, run_result,
             simpy_exit, stop_at, stop_sends,
             seen_len>>

\* a SensorNode of the mesh variant and its MqttClient (src/src)
VARIABLES
    node_x,              \* SensorNode.x, on a line
    node_state,          \* SensorNode.state
    connected_parent_id, \* SensorNode.connected_parent_id
    client_connected,    \* MqttClient.connected
    client_backoff,      \* MqttClient.backoff
    client_retry_count,  \* MqttClient.retry_count
    network_loop,        \* the position of MqttClient.network_loop
    link,                \* the local variable link of attempt_connect
    peer_state,          \* SensorNode.state of the other sensor
    node_active,         \* SensorNode.active
    battery_low,         \* SensorNode.battery_j <= 0
    msg_queue,           \* MqttClient.msg_queue, as message numbers
    sending,             \* the local variable msg of network_loop
    enqueued,            \* history: messages MqttClient.publish appended
    handed,              \* history: messages broker.publish accepted
    requeued             \* history: a message was put back at the head

lifevars == <<node_active, battery_low>>

queuevars == <<msg_queue, sending, enqueued, handed, requeued>>

meshvars == <<node_x, node_state, connected_parent_id, client_connected,
              client_backoff, client_retry_count, network_loop, link,
              peer_state, lifevars, queuevars>>

vars == <<netvars, histvars, brokervars, macvars, callvars, runvars, meshvars>>

NoTime == -1

\* MqttBroker.__init__
InitMqttBroker ==
    /\ is_alive = TRUE
    /\ last_failover_start = NoTime
    /\ last_failover_end = NoTime
    /\ subscriptions = <<>>
    /\ broker_retained = <<>>
    /\ client_queues = <<>>
    /\ connected_clients = {}
    /\ env_now = 0
    /\ procs = <<>>
    /\ published = 0
    /\ received = {}
    /\ crashes = 0
    /\ owed = [c \in Clients |-> <<>>]
    /\ replayed = [c \in Clients |-> <<>>]
    /\ wiped = [c \in Clients |-> {}]
    /\ left = [c \in Clients |-> <<>>]

\* no ExperimentRunner.run is under way
NoRun ==
    /\ run_state = "none"
    /\ stop_requested = FALSE
    /\ broker_process = [kind |-> "none", due |-> 0]
    /\ stopper = [kind |-> "none", due |-> 0]
    /\ run_result = <<>>
    /\ simpy_exit = "StopProcess"
    /\ stop_at = NoTime
    /\ stop_sends = 0
    /\ seen_len = NoTime

\* no mesh node has been built
NoMesh ==
    /\ node_x = 0
    /\ node_state = "none"
    /\ connected_parent_id = "none"
    /\ client_connected = FALSE
    /\ client_backoff = 0
    /\ client_retry_count = 0
    /\ network_loop = "none"
    /\ link = <<>>
    /\ peer_state = "none"
    /\ node_active = FALSE
    /\ battery_low = FALSE
    /\ msg_queue = <<>>
    /\ sending = 0
    /\ enqueued = 0
    /\ handed = <<>>
    /\ requeued = FALSE

\* MACResult
MACResult(success, latency_ms, energy_tx, duration_s) ==
    [success |-> success, latency_ms |-> latency_ms, energy_mj |-> energy_tx,
     duration_s |-> duration_s]

NoResult == MACResult(FALSE, 0, 0, 0)

\* where an MQTTClient.run process stands: not started ("none"), in the
\* timeout of its publish interval ("interval") or in the timeout of tx ("tx")
Position(kind, due, start_time, latency_ms, energy_tx) ==
    [kind |-> kind, due |-> due, start_time |-> start_time,
     latency_ms |-> latency_ms, energy_mj |-> energy_tx]

\* MACScheduler.__init__ and the state before any MQTTClient is built
InitMac ==
    /\ duty_cycle_trackers = <<>>
    /\ proc = [c \in Clients |-> Position("none", 0, 0, 0, 0)]
    /\ tx_result = [c \in Clients |-> NoResult]
    /\ energy = [c \in Clients |-> [tx_energy_mj |-> 0, sleep_energy_mj |-> 0]]
    /\ radio_tx_s = <<>>
    /\ radio_sleep_s = <<>>
    /\ energy_mj = <<>>

\* ---------------------------------------------- the state as one record
Cur ==
    [now |-> now, events |-> events, config |-> config,
     sessions |-> sessions, retained |-> retained,
     broker_queue |-> broker_queue, msg_counter |-> msg_counter,
     backoff_state |-> backoff_state, failover_active |-> failover_active,
     heap |-> heap, send_events |-> send_events,
     delivery_events |-> delivery_events,
     duplicate_events |-> duplicate_events, queue_drops |-> queue_drops,
     broker_queue_depth |-> broker_queue_depth,
     client_states |-> client_states, snapshots |-> snapshots,
     delivered |-> <<>>, reconnect_queue |-> <<>>]

Commit(N) ==
    /\ now' = N.now
    /\ events' = N.events
    /\ config' = N.config
    /\ sessions' = N.sessions
    /\ retained' = N.retained
    /\ broker_queue' = N.broker_queue
    /\ msg_counter' = N.msg_counter
    /\ backoff_state' = N.backoff_state
    /\ failover_active' = N.failover_active
    /\ heap' = N.heap
    /\ send_events' = N.send_events
    /\ delivery_events' = N.delivery_events
    /\ duplicate_events' = N.duplicate_events
    /\ queue_drops' = N.queue_drops
    /\ broker_queue_depth' = N.broker_queue_depth
    /\ client_states' = N.client_states
    /\ snapshots' = N.snapshots
    /\ delivered' = N.delivered

\* ------------------------------------------------------------- sessions
HasSession(N, cid) == \E i \in 1..Len(N.sessions) : N.sessions[i].client_id = cid

SessIdx(N, cid) == CHOOSE i \in 1..Len(N.sessions) : N.sessions[i].client_id = cid

Sess(N, cid) == N.sessions[SessIdx(N, cid)]

\* the `will` argument of connect: None, or (topic, message, qos) where only
\* the emptiness of the message bytes is kept
NoWill == [present |-> FALSE, topic |-> NoTopic, message |-> FALSE, qos |-> 0]

Will(topic, qos) == [present |-> TRUE, topic |-> topic, message |-> TRUE, qos |-> qos]

ClientSession(cid, clean) ==
    [client_id |-> cid, clean_session |-> clean, inflight |-> <<>>,
     subscriptions |-> <<>>, connected |-> TRUE, last_seen |-> 0,
     keep_alive |-> 30, pending_retransmit |-> <<>>, next_reconnect |-> 0,
     will_topic |-> NoTopic, will_message |-> FALSE, will_qos |-> 0]

MQTTMessage(topic, qos, retain) ==
    [topic |-> topic, qos |-> qos, retain |-> retain, dup |-> FALSE,
     msg_id |-> 0, sender |-> "none", retries |-> 0]

update_client_state(N, cid, state) ==
    [N EXCEPT !.client_states = Put(@, cid, state)]

WithWill(s, will) ==
    IF will.present
    THEN [s EXCEPT !.will_topic = will.topic, !.will_message = will.message,
                   !.will_qos = will.qos]
    ELSE s

connectAlwaysFresh(N, cid, clean, keep_alive, will) ==
    LET s == WithWill([ClientSession(cid, clean) EXCEPT
                           !.keep_alive = keep_alive,
                           !.last_seen = N.now], will)
        ss == IF HasSession(N, cid)
              THEN [N.sessions EXCEPT ![SessIdx(N, cid)] = s]
              ELSE Append(N.sessions, s)
    IN update_client_state([N EXCEPT !.sessions = ss], cid, "connected")

connect(N, cid, clean, keep_alive, will) ==
    IF HasSession(N, cid) /\ ~clean
    THEN LET i == SessIdx(N, cid)
             s == WithWill([N.sessions[i] EXCEPT !.connected = TRUE,
                                                 !.last_seen = N.now,
                                                 !.keep_alive = keep_alive],
                           will)
         IN update_client_state([N EXCEPT !.sessions[i] = s], cid, "connected")
    ELSE LET s == WithWill([ClientSession(cid, clean) EXCEPT
                                !.keep_alive = keep_alive,
                                !.last_seen = N.now], will)
             ss == IF HasSession(N, cid)
                   THEN [N.sessions EXCEPT ![SessIdx(N, cid)] = s]
                   ELSE Append(N.sessions, s)
         IN update_client_state([N EXCEPT !.sessions = ss], cid, "connected")

record_queue_dropUncounted(N) == N

record_queue_drop(N) == [N EXCEPT !.queue_drops = @ + 1]

QueueIsFullOffByOne(N) == Len(N.broker_queue) > N.config.queue_capacity

QueueIsFull(N) == Len(N.broker_queue) >= N.config.queue_capacity

_queue_message(N, h, loss_rate, latency_ms) ==
    IF QueueIsFull(N)
    THEN record_queue_drop(N)
    ELSE [N EXCEPT !.broker_queue =
                       Append(@, [msg |-> h, latency_ms |-> latency_ms,
                                  loss_rate |-> loss_rate]),
                   !.broker_queue_depth = Len(N.broker_queue) + 1]

disconnect(N, cid) ==
    IF ~HasSession(N, cid) THEN N
    ELSE LET i == SessIdx(N, cid)
             s == N.sessions[i]
             N1 == [N EXCEPT !.sessions[i].connected = FALSE,
                             !.sessions[i].last_seen = N.now]
             N2 == IF s.will_topic # NoTopic /\ s.will_message
                   THEN LET m == [MQTTMessage(s.will_topic, s.will_qos, FALSE)
                                     EXCEPT !.sender = cid]
                            N1h == [N1 EXCEPT !.heap = Append(@, m)]
                        IN _queue_message(N1h, Len(N1h.heap),
                                          N.config.wan_loss_rate,
                                          N.config.wan_latency_ms)
                   ELSE N1
         IN update_client_state(N2, cid, "disconnected")

NextMsgCounterStuck(c) == c

NextMsgCounter(c) == c + 1

record_send(N) == [N EXCEPT !.send_events = @ + 1]

\* publish: `message` is the object the caller built; it becomes heap[h]
publish(N, cid, message, gateway_id) ==
    LET m == [message EXCEPT !.msg_id = N.msg_counter, !.sender = cid]
        h == Len(N.heap) + 1
        N1 == [N EXCEPT !.heap = Append(@, m),
                        !.msg_counter = NextMsgCounter(@)]
        viaGw == gateway_id # NoGateway /\ gateway_id \in DOMAIN N.config.gateway_links
        loss_rate == IF viaGw THEN N.config.gateway_links[gateway_id].loss_rate
                     ELSE N.config.wan_loss_rate
        latency_ms == IF viaGw THEN N.config.gateway_links[gateway_id].latency_ms
                      ELSE N.config.wan_latency_ms
        N2 == _queue_message(record_send(N1), h, loss_rate, latency_ms)
        N3 == IF m.retain THEN [N2 EXCEPT !.retained = Put(@, m.topic, h)]
              ELSE N2
    IN [N3 EXCEPT !.sessions[SessIdx(N, cid)].last_seen = N.now]

_deliver(N, cid, h, dup) ==
    [N EXCEPT !.delivery_events = @ + 1,
              !.duplicate_events = IF dup THEN @ + 1 ELSE @,
              !.delivered = Append(@, <<cid, h>>)]

\* a subscribe that hands over every retained message its filter matches
subscribeMatching(N, cid, topic, qos) ==
    LET i == SessIdx(N, cid)
        N1 == [N EXCEPT !.sessions[i].subscriptions = Put(@, topic, qos)]
        hit == {t \in DOMAIN N.retained : Match(topic, t)}
        N2 == IF hit # {}
              THEN _deliver(N1, cid, N.retained[CHOOSE t \in hit : TRUE], FALSE)
              ELSE N1
    IN [N2 EXCEPT !.sessions[i].last_seen = N.now]

subscribe(N, cid, topic, qos) ==
    LET i == SessIdx(N, cid)
        N1 == [N EXCEPT !.sessions[i].subscriptions = Put(@, topic, qos)]
        N2 == IF topic \in DOMAIN N.retained
              THEN _deliver(N1, cid, N.retained[topic], FALSE)
              ELSE N1
    IN [N2 EXCEPT !.sessions[i].last_seen = N.now]

\* ordered dict: pending_retransmit keeps insertion order, iterated by
\* check_keep_alive
HasKey(od, k) == \E i \in 1..Len(od) : od[i].id = k

PutOrd(od, k, v) ==
    IF HasKey(od, k)
    THEN [i \in 1..Len(od) |-> IF od[i].id = k THEN [id |-> k, deadline |-> v]
                                                ELSE od[i]]
    ELSE Append(od, [id |-> k, deadline |-> v])

DropOrd(od, k) == SelectSeq(od, LAMBDA e : e.id # k)

RECURSIVE Repeat(_, _)
Repeat(x, n) == IF n = 0 THEN <<>> ELSE <<x>> \o Repeat(x, n - 1)

IsLostInclusive(roll, loss_rate) == roll <= loss_rate

IsLost(roll, loss_rate) == roll < loss_rate

\* process_queue, first loop: the messages that survive the loss roll
RECURSIVE Surviving(_, _, _, _)
Surviving(q, rolls, jitter, i) ==
    IF i > Len(q) THEN <<>>
    ELSE (IF IsLost(rolls[i], q[i].loss_rate) THEN <<>>
          ELSE <<[msg |-> q[i].msg, latency_ms |-> q[i].latency_ms + jitter[i]]>>)
         \o Surviving(q, rolls, jitter, i + 1)

MatchingFilters(N, s, h) ==
    {f \in DOMAIN s.subscriptions : Match(f, N.heap[h].topic)}

IsTarget(s) == s.connected

\* process_queue, second loop: one entry per (message, connected session,
\* matching subscription), in the order the code visits them
RECURSIVE SessionTargets(_, _, _)
SessionTargets(N, p, i) ==
    IF i > Len(N.sessions) THEN <<>>
    ELSE (IF IsTarget(N.sessions[i])
          THEN Repeat([msg |-> p.msg, latency_ms |-> p.latency_ms,
                       client |-> N.sessions[i].client_id],
                      Cardinality(MatchingFilters(N, N.sessions[i], p.msg)))
          ELSE <<>>)
         \o SessionTargets(N, p, i + 1)

RECURSIVE Targets(_, _, _)
Targets(N, pending, k) ==
    IF k > Len(pending) THEN <<>>
    ELSE SessionTargets(N, pending[k], 1) \o Targets(N, pending, k + 1)

AckDue(N, latency_ms) == N.now + latency_ms

\* a delivery that registers the message in flight without a deadline
DeliverOneNoDeadline(N, d, dup) ==
    LET m == N.heap[d.msg]
        i == SessIdx(N, d.client)
        N1 == IF m.qos = 1
              THEN [N EXCEPT !.sessions[i].inflight = Put(@, m.msg_id, d.msg)]
              ELSE N
        N2 == IF dup THEN [N1 EXCEPT !.duplicate_events = @ + 1] ELSE N1
        N3 == _deliver(update_client_state(N2, d.client, "connected"),
                       d.client, d.msg, dup)
    IN IF m.qos = 1
       THEN [N3 EXCEPT !.events =
                 Append(@, [kind |-> "ack", due |-> AckDue(N, d.latency_ms),
                            prio |-> 1, client |-> d.client, key |-> m.msg_id])]
       ELSE N3

DeliverOne(N, d, dup) ==
    LET m == N.heap[d.msg]
        i == SessIdx(N, d.client)
        N1 == IF m.qos = 1
              THEN [N EXCEPT !.sessions[i].inflight = Put(@, m.msg_id, d.msg),
                             !.sessions[i].pending_retransmit =
                                 PutOrd(@, m.msg_id, N.now + 2 * d.latency_ms)]
              ELSE N
        N2 == IF dup THEN [N1 EXCEPT !.duplicate_events = @ + 1] ELSE N1
        N3 == _deliver(update_client_state(N2, d.client, "connected"),
                       d.client, d.msg, dup)
    IN IF m.qos = 1
       THEN [N3 EXCEPT !.events =
                 Append(@, [kind |-> "ack", due |-> AckDue(N, d.latency_ms),
                            prio |-> 1, client |-> d.client, key |-> m.msg_id])]
       ELSE N3

RECURSIVE DeliverAll(_, _, _, _)
DeliverAll(N, D, ndup, k) ==
    IF k > Len(D) THEN N
    ELSE DeliverAll(DeliverOne(N, D[k], k <= ndup), D, ndup, k + 1)

process_queue(N, rolls, jitter, ndup) ==
    LET pending == Surviving(N.broker_queue, rolls, jitter, 1)
        N1 == [N EXCEPT !.broker_queue = <<>>]
        N2 == IF pending # <<>> THEN [N1 EXCEPT !.broker_queue_depth = 0] ELSE N1
    IN DeliverAll(N2, Targets(N2, pending, 1), ndup, 1)

ackInflightOnly(N, cid, msg_id) ==
    [N EXCEPT !.sessions[SessIdx(N, cid)].inflight = Drop(@, msg_id)]

ack(N, cid, msg_id) ==
    LET i == SessIdx(N, cid)
    IN [N EXCEPT !.sessions[i].inflight = Drop(@, msg_id),
                 !.sessions[i].pending_retransmit = DropOrd(@, msg_id)]

_schedule_reconnect(N, cid) ==
    LET prev == IF cid \in DOMAIN N.backoff_state THEN N.backoff_state[cid]
                ELSE N.config.wan_reconnect_backoff[1]
        backoff == Min(prev * 2, N.config.wan_reconnect_backoff[2])
    IN [N EXCEPT !.backoff_state = Put(@, cid, backoff),
                 !.sessions[SessIdx(N, cid)].next_reconnect = N.now + backoff]

\* check_keep_alive, inner loop over list(session.pending_retransmit.items())
\* of session i; returns the state and the list to_requeue
RECURSIVE Retransmit(_, _, _, _, _)
Retransmit(N, i, items, k, to_requeue) ==
    IF k > Len(items) THEN [N |-> N, to_requeue |-> to_requeue]
    ELSE LET msg_id == items[k].id
             s == N.sessions[i]
         IN IF ~(N.now >= items[k].deadline)
            THEN Retransmit(N, i, items, k + 1, to_requeue)
            ELSE IF msg_id \notin DOMAIN s.inflight
            THEN Retransmit([N EXCEPT !.sessions[i].pending_retransmit =
                                          DropOrd(@, msg_id)],
                            i, items, k + 1, to_requeue)
            ELSE LET h == s.inflight[msg_id]
                     retry_count == N.heap[h].retries
                 IN IF retry_count >= retry_limit
                    THEN Retransmit(
                           [N EXCEPT !.sessions[i].pending_retransmit =
                                         DropOrd(@, msg_id),
                                     !.sessions[i].inflight = Drop(@, msg_id)],
                           i, items, k + 1, to_requeue)
                    ELSE Retransmit(
                           [N EXCEPT !.heap[h].retries = retry_count + 1,
                                     !.heap[h].dup = TRUE,
                                     !.sessions[i].pending_retransmit =
                                         PutOrd(@, msg_id, N.now + RetransmitDelay)],
                           i, items, k + 1, Append(to_requeue, h))

RequeueNone(N, to_requeue, k) == N

RECURSIVE RequeueAll(_, _, _)
RequeueAll(N, to_requeue, k) ==
    IF k > Len(to_requeue) THEN N
    ELSE RequeueAll(_queue_message(N, to_requeue[k], N.config.wan_loss_rate,
                                   N.config.wan_latency_ms),
                    to_requeue, k + 1)

KeepAliveExpired(N, s) == s.connected /\ N.now - s.last_seen > s.keep_alive

RECURSIVE KeepAliveSessions(_, _)
KeepAliveSessions(N, i) ==
    IF i > Len(N.sessions) THEN N
    ELSE LET s == N.sessions[i]
             N1 == IF KeepAliveExpired(N, s)
                   THEN _schedule_reconnect(disconnect(N, s.client_id), s.client_id)
                   ELSE IF ~s.connected /\ s.next_reconnect # 0
                           /\ N.now >= s.next_reconnect
                   THEN [N EXCEPT !.reconnect_queue = Append(@, s.client_id)]
                   ELSE N
             r == Retransmit(N1, i, N1.sessions[i].pending_retransmit, 1, <<>>)
         IN KeepAliveSessions(RequeueAll(r.N, r.to_requeue, 1), i + 1)

RECURSIVE ReconnectQueued(_)
ReconnectQueued(N) ==
    IF N.reconnect_queue = <<>> THEN N
    ELSE LET cid == Head(N.reconnect_queue)
             N1 == [N EXCEPT !.reconnect_queue = Tail(@)]
             s == Sess(N1, cid)
         IN ReconnectQueued(connect(N1, cid, s.clean_session, s.keep_alive, NoWill))

check_keep_alive(N) == ReconnectQueued(KeepAliveSessions(N, 1))

\* ------------------------------------------------------------ failover
Event(kind, due, prio, client, key, down) ==
    [kind |-> kind, due |-> due, prio |-> prio, client |-> client,
     key |-> key, down |-> down]

trigger_failoverUnguarded(N, down_seconds) ==
    [N EXCEPT !.failover_active = TRUE,
              !.events = Append(@, Event("failover_start", N.now, 0,
                                         "none", 0, down_seconds))]

trigger_failover(N, down_seconds) ==
    IF N.failover_active THEN N
    ELSE [N EXCEPT !.failover_active = TRUE,
                   !.events = Append(@, Event("failover_start", N.now, 0,
                                              "none", 0, down_seconds))]

RECURSIVE DisconnectEveryone(_, _)
DisconnectEveryone(N, i) ==
    IF i > Len(N.sessions) THEN N
    ELSE DisconnectEveryone(
           update_client_state([N EXCEPT !.sessions[i].connected = FALSE],
                               N.sessions[i].client_id, "reconnecting"),
           i + 1)

RECURSIVE ReconnectEveryoneClean(_, _)
ReconnectEveryoneClean(N, i) ==
    IF i > Len(N.sessions) THEN N
    ELSE LET s == N.sessions[i]
         IN ReconnectEveryoneClean(
              connect(N, s.client_id, TRUE, s.keep_alive, NoWill), i + 1)

RECURSIVE ReconnectEveryone(_, _)
ReconnectEveryone(N, i) ==
    IF i > Len(N.sessions) THEN N
    ELSE LET s == N.sessions[i]
         IN ReconnectEveryone(
              connect(N, s.client_id, s.clean_session, s.keep_alive, NoWill),
              i + 1)

\* _failover_proc up to its yield
failover_start(N, down_seconds) ==
    LET N1 == DisconnectEveryone(N, 1)
    IN [N1 EXCEPT !.events = Append(@, Event("failover_recover",
                                             N.now + down_seconds, 1,
                                             "none", 0, down_seconds))]

\* _failover_proc after its yield
failover_recover(N) ==
    [ReconnectEveryone(N, 1) EXCEPT !.failover_active = FALSE]

\* ExperimentRunner._broker_failover: the configured outage
DefaultRecoverS == 10

RecoverAfter(broker_recover_s) ==
    IF broker_recover_s = 0 THEN DefaultRecoverS ELSE broker_recover_s

\* run starts the process, which waits for broker_failover_s
_broker_failover(N, broker_failover_s, broker_recover_s) ==
    [N EXCEPT !.events = Append(@, Event("broker_failover",
                                         N.now + broker_failover_s, 0,
                                         "none", 0, broker_recover_s))]

\* _broker_failover between its two yields
broker_failover_down(N, broker_recover_s) ==
    LET N1 == DisconnectEveryone(N, 1)
    IN [N1 EXCEPT !.events = Append(@, Event("broker_recover",
                                             N.now + RecoverAfter(broker_recover_s),
                                             1, "none", 0, broker_recover_s))]

\* _broker_failover after its second yield
broker_failover_recover(N) == ReconnectEveryone(N, 1)

\* ------------------------------------------------------------- metrics
delivery_ratio(N) ==
    IF N.send_events # 0
    THEN [num |-> N.delivery_events, den |-> N.send_events]
    ELSE [num |-> 0, den |-> 1]

\* a snapshot that keeps only the latest rollup
snapshotLatest(N, timestamp) ==
    [N EXCEPT !.snapshots =
        <<[timestamp |-> timestamp,
           delivery_ratio |-> delivery_ratio(N),
           duplicates |-> N.duplicate_events,
           broker_queue_depth |-> N.broker_queue_depth,
           send_events |-> N.send_events,
           delivery_events |-> N.delivery_events,
           client_states |-> N.client_states,
           queue_drops |-> N.queue_drops]>>]

snapshot(N, timestamp) ==
    [N EXCEPT !.snapshots =
        Append(@, [timestamp |-> timestamp,
                   delivery_ratio |-> delivery_ratio(N),
                   duplicates |-> N.duplicate_events,
                   broker_queue_depth |-> N.broker_queue_depth,
                   send_events |-> N.send_events,
                   delivery_events |-> N.delivery_events,
                   client_states |-> N.client_states,
                   queue_drops |-> N.queue_drops])]

\* ------------------------------------------------------- event scheduler
EventBefore(e1, i1, e2, i2) ==
    \/ e1.due < e2.due
    \/ e1.due = e2.due /\ e1.prio < e2.prio
    \/ e1.due = e2.due /\ e1.prio = e2.prio /\ i1 <= i2

NextEventIdx(ev) ==
    CHOOSE i \in 1..Len(ev) :
        \A j \in 1..Len(ev) : EventBefore(ev[i], i, ev[j], j)

RemoveAt(seq, i) == SubSeq(seq, 1, i - 1) \o SubSeq(seq, i + 1, Len(seq))

\* ------------------------------------------------------------- history
Range(seq) == {seq[i] : i \in 1..Len(seq)}

Disconnected(N, c) == HasSession(N, c) /\ ~Sess(N, c).connected

Reconnected(N, M, c) == Disconnected(N, c) /\ Sess(M, c).connected

\* the connect calls a step made without naming them: client -> clean flag
ConnectsByDiff(N, M) ==
    [c \in {x \in Clients : Reconnected(N, M, x)} |-> Sess(N, c).clean_session]

NewPublishes(N, M) ==
    {h \in (Len(N.heap) + 1)..Len(M.heap) : M.heap[h].msg_id # 0}

NewOffers(N, M) == {h \in (Len(N.heap) + 1)..Len(M.heap) : M.heap[h].msg_id = 0}

Owed(N, c) ==
    {h \in offline_pubs[c] :
        \E f \in DOMAIN Sess(N, c).subscriptions : Match(f, N.heap[h].topic)}

\* the subscriptions of connected sessions that match a topic
Subscribers(N, topic) ==
    {x \in (1..Len(N.sessions)) \X (UNION {DOMAIN N.sessions[i].subscriptions :
                                             i \in 1..Len(N.sessions)}) :
        /\ N.sessions[x[1]].connected
        /\ x[2] \in DOMAIN N.sessions[x[1]].subscriptions
        /\ Match(x[2], topic)}

\* since the last process_queue the queue, of capacity 1 and then empty, was
\* offered exactly two publishes, by different clients, over lossless links,
\* and each topic has one connected matching subscriber
TwoPublishesQueued(N) ==
    /\ N.config.queue_capacity = 1
    /\ Len(since_pq.pubs) = 2
    /\ ~since_pq.others
    /\ N.heap[since_pq.pubs[1]].sender # N.heap[since_pq.pubs[2]].sender
    /\ \A i \in 1..Len(N.broker_queue) : N.broker_queue[i].loss_rate = 0
    /\ \A k \in 1..2 :
          Cardinality(Subscribers(N, N.heap[since_pq.pubs[k]].topic)) = 1

NetStep(op, M, connects) ==
    LET N == Cur
    IN /\ Commit(M)
       /\ track' = track
       /\ UNCHANGED <<brokervars, callvars>>
       /\ offline_pubs' =
              IF track # "session" THEN offline_pubs
              ELSE [c \in Clients |->
                      IF c \in DOMAIN connects THEN {}
                      ELSE IF Disconnected(N, c)
                      THEN offline_pubs[c] \cup NewPublishes(N, M)
                      ELSE offline_pubs[c]]
       /\ stale_pubs' =
              IF track # "session" THEN stale_pubs
              ELSE [c \in Clients |->
                      IF c \in DOMAIN connects
                      THEN (IF connects[c] THEN stale_pubs[c] \cup offline_pubs[c]
                            ELSE {})
                      ELSE stale_pubs[c]]
       /\ due_reconnects' =
              IF track # "keepalive" THEN due_reconnects
              ELSE [c \in Clients |->
                      IF op = "check_keep_alive"
                      THEN (IF HasSession(N, c) /\ KeepAliveExpired(N, Sess(N, c))
                            THEN 1
                            ELSE IF c \in DOMAIN connects
                            THEN due_reconnects[c] - 1
                            ELSE due_reconnects[c])
                      ELSE IF c \in DOMAIN connects THEN 0
                      ELSE due_reconnects[c]]
       /\ since_pq' =
              IF track # "queue" THEN since_pq
              ELSE IF op = "process_queue"
              THEN [pubs |-> <<>>, others |-> FALSE, drops |-> M.queue_drops,
                    two_publishes |-> TwoPublishesQueued(N)]
              ELSE [since_pq EXCEPT
                      !.two_publishes = FALSE,
                      !.pubs = IF op = "publish"
                               THEN Append(@, Len(M.heap)) ELSE @,
                      !.others = @ \/ (op # "publish"
                                       /\ (M.queue_drops # N.queue_drops
                                           \/ M.broker_queue # N.broker_queue))]

\* a step of the network made by a caller other than an MQTTClient
Step(op, M, connects) ==
    NetStep(op, M, connects) /\ UNCHANGED <<macvars, runvars, meshvars>>

Op(name, cid) == name

\* ---------------------------------------------------------------- Init
NodeConfig(topic, qos, clean_session, retain, gateway_id, will_topic) ==
    [topic |-> topic, qos |-> qos, clean_session |-> clean_session,
     retained |-> retain, gateway_id |-> gateway_id, will_topic |-> will_topic]

\* the node lists of the scenarios explored
NodeLists ==
    {[c \in Clients |->
        IF c = "c1" THEN NodeConfig(TopicA, 1, FALSE, TRUE, NoGateway, TopicA)
        ELSE NodeConfig(FilterA, 0, TRUE, FALSE, "gw1", NoTopic)]}

Configs(capacities, jitters) ==
    [queue_capacity : capacities,
     nodes : NodeLists,
     wan_loss_rate : {0},
     wan_latency_ms : {0},
     wan_latency_jitter_ms : jitters,
     wan_reconnect_backoff : {<<BackoffMin, BackoffMax>>},
     gateway_links : {[g \in Gateways |-> [latency_ms |-> 0, loss_rate |-> 50]]}]

\* everything but the arguments of a call of _match
InitState(tr, cfgs) ==
    /\ track = tr
    /\ now = 0
    /\ events = <<>>
    /\ config \in cfgs
    /\ sessions = <<>>
    /\ retained = <<>>
    /\ broker_queue = <<>>
    /\ msg_counter = 1
    /\ backoff_state = <<>>
    /\ failover_active = FALSE
    /\ heap = <<>>
    /\ send_events = 0
    /\ delivery_events = 0
    /\ duplicate_events = 0
    /\ queue_drops = 0
    /\ broker_queue_depth = 0
    /\ client_states = <<>>
    /\ snapshots = <<>>
    /\ delivered = <<>>
    /\ offline_pubs = [c \in Clients |-> {}]
    /\ stale_pubs = [c \in Clients |-> {}]
    /\ since_pq = [pubs |-> <<>>, others |-> FALSE, drops |-> 0,
                   two_publishes |-> FALSE]
    /\ due_reconnects = [c \in Clients |-> 0]
    /\ InitMqttBroker
    /\ InitMac

\* no call of _match is under way
NoCall ==
    /\ match_subscription = <<>>
    /\ match_topic = <<>>
    /\ match_return = <<>>

InitNet(tr, cfgs) == InitState(tr, cfgs) /\ NoCall /\ NoRun /\ NoMesh

\* -------------------------------------------------------------- actions
\* how many deliveries a scenario records
DeliveryLimit == IF track = "retry" THEN MaxRedeliveries ELSE MaxDeliveries

\* MQTTClient.__init__: connect with the node's flags and last will
Connect(c) ==
    LET node == config.nodes[c]
        will == IF node.will_topic # NoTopic
                THEN Will(node.will_topic, node.qos) ELSE NoWill
    IN Step(Op("connect", c),
            connect(Cur, c, node.clean_session, KeepAlive, will),
            c :> node.clean_session)

Disconnect(c) ==
    LET M == disconnect(Cur, c)
    IN /\ HasSession(Cur, c)
       /\ Len(M.heap) <= MaxObjs
       /\ Step(Op("disconnect", c), M, <<>>)

\* MQTTClient.run: publish the node's message
Publish(c) ==
    LET node == config.nodes[c]
    IN /\ HasSession(Cur, c)
       /\ msg_counter <= MaxMsgs
       /\ Len(heap) < MaxObjs
       /\ Step(Op("publish", c),
               publish(Cur, c, MQTTMessage(node.topic, node.qos, node.retained),
                       node.gateway_id),
               <<>>)

\* MQTTClient.__init__: subscribe to the node's topic
Subscribe(c) ==
    LET node == config.nodes[c]
        M == subscribe(Cur, c, node.topic, node.qos)
    IN /\ HasSession(Cur, c)
       /\ M.delivery_events <= DeliveryLimit
       /\ Step(Op("subscribe", c), M, <<>>)

ProcessQueue ==
    \E rolls \in [1..Len(broker_queue) -> RandomOutcomes],
       jitter \in [1..Len(broker_queue) -> 0..config.wan_latency_jitter_ms] :
        LET N == Cur
            n == Len(Targets(N, Surviving(N.broker_queue, rolls, jitter, 1), 1))
        IN /\ delivery_events + n <= DeliveryLimit
           /\ \E ndup \in 0..n :
                 /\ duplicate_events + 2 * ndup <= MaxDups
                 /\ Step(Op("process_queue", "none"),
                         process_queue(N, rolls, jitter, ndup), <<>>)

CheckKeepAlive ==
    LET M == check_keep_alive(Cur)
    IN /\ Len(M.heap) <= MaxObjs
       /\ Step(Op("check_keep_alive", "none"), M, ConnectsByDiff(Cur, M))

TriggerFailover(down_seconds) ==
    Step(Op("trigger_failover", "none"), trigger_failover(Cur, down_seconds), <<>>)

Snapshot ==
    /\ Len(snapshots) < MaxSnapshots
    /\ Step(Op("snapshot", "none"), snapshot(Cur, now), <<>>)

RunEvent ==
    /\ events # <<>>
    /\ LET i == NextEventIdx(events)
           e == events[i]
           N == [Cur EXCEPT !.events = RemoveAt(@, i)]
           M == CASE e.kind = "ack" -> ack(N, e.client, e.key)
                  [] e.kind = "failover_start" -> failover_start(N, e.down)
                  [] e.kind = "failover_recover" -> failover_recover(N)
                  [] e.kind = "broker_failover" -> broker_failover_down(N, e.down)
                  [] e.kind = "broker_recover" -> broker_failover_recover(N)
       IN /\ e.due <= now
          /\ Step(Op(e.kind, e.client), M, ConnectsByDiff(Cur, M))

\* how far the clock of a scenario runs
TimeLimit ==
    CASE track = "keepalive" -> MaxKeepAliveTime
      [] track = "overlap" -> MaxOverlapTime
      [] OTHER -> MaxTime

\* env.run moves the clock on to the next scheduled event; the scenarios of
\* the ack processes let it do so past their horizon
Tick ==
    /\ (now < TimeLimit \/ (track = "ack" /\ events # <<>>))
    /\ \A i \in 1..Len(events) : events[i].due > now
    /\ Step(Op("tick", "none"), [Cur EXCEPT !.now = @ + 1], <<>>)

\* the network at one broker: clients, the broker's periodic calls, time
Init == InitNet("queue", Configs(1..MaxCapacity, {JitterS}))

Next ==
    \/ \E c \in Clients : Connect(c)
    \/ \E c \in Clients : Disconnect(c)
    \/ \E c \in Clients : Publish(c)
    \/ \E c \in Clients : Subscribe(c)
    \/ ProcessQueue
    \/ CheckKeepAlive
    \/ RunEvent
    \/ Tick

Spec == Init /\ [][Next]_vars

\* the counters and the snapshot, at one instant
InitMetrics == InitNet("none", Configs(1..MaxCapacity, {0}))

NextMetrics ==
    \/ \E c \in Clients : Connect(c)
    \/ \E c \in Clients : Disconnect(c)
    \/ \E c \in Clients : Publish(c)
    \/ \E c \in Clients : Subscribe(c)
    \/ ProcessQueue
    \/ Snapshot

SpecMetrics == InitMetrics /\ [][NextMetrics]_vars

\* sessions across outages: failover instead of the disconnect call
InitSession == InitNet("session", Configs({MaxCapacity}, {0}))

NextSession ==
    \/ \E c \in Clients : Connect(c)
    \/ \E c \in Clients : Publish(c)
    \/ \E c \in Clients : Subscribe(c)
    \/ ProcessQueue
    \/ CheckKeepAlive
    \/ \E d \in 1..MaxDown : TriggerFailover(d)
    \/ RunEvent
    \/ Tick

SpecSession == InitSession /\ [][NextSession]_vars

\* QoS1 deliveries, their acks and their retransmissions up to retry_limit
InitRetry == InitNet("retry", Configs({MaxCapacity}, {0}))

NextRetry ==
    \/ \E c \in Clients : Connect(c)
    \/ \E c \in Clients : Publish(c)
    \/ \E c \in Clients : Subscribe(c)
    \/ ProcessQueue
    \/ CheckKeepAlive
    \/ RunEvent
    \/ Tick

SpecRetry == InitRetry /\ [][NextRetry]_vars

\* QoS1 deliveries and the ack processes they start; simpy runs every
\* scheduled process, so the clock and the event list are weakly fair
InitAck == InitNet("ack", Configs({MaxCapacity}, {JitterS}))

NextAck ==
    \/ \E c \in Clients : Connect(c)
    \/ \E c \in Clients : Publish(c)
    \/ \E c \in Clients : Subscribe(c)
    \/ ProcessQueue
    \/ CheckKeepAlive
    \/ RunEvent
    \/ Tick

SpecAck == InitAck /\ [][NextAck]_vars /\ WF_vars(RunEvent) /\ WF_vars(Tick)

\* keep-alive timeouts and the reconnects they schedule, with outages
InitKeepAlive == InitNet("keepalive", Configs({MaxCapacity}, {0}))

NextKeepAlive ==
    \/ \E c \in Clients : Connect(c)
    \/ \E c \in Clients : Subscribe(c)
    \/ ProcessQueue
    \/ CheckKeepAlive
    \/ \E d \in 1..MaxDown : TriggerFailover(d)
    \/ RunEvent
    \/ Tick

SpecKeepAlive == InitKeepAlive /\ [][NextKeepAlive]_vars

\* the configured outage of the runner next to one triggered from the GUI

Pending(kind) == \E e \in 1..Len(events) : events[e].kind = kind

\* run starts _broker_failover once, when broker_failover_s is configured
BrokerFailover(broker_failover_s, broker_recover_s) ==
    /\ now = 0
    /\ ~Pending("broker_failover")
    /\ Step(Op("_broker_failover", "none"),
            _broker_failover(Cur, broker_failover_s, broker_recover_s), <<>>)

InitOverlap == InitNet("overlap", Configs({MaxCapacity}, {0}))

NextOverlap ==
    \/ \E c \in Clients : Connect(c)
    \/ \E f \in 1..MaxDown, r \in 1..MaxRecover : BrokerFailover(f, r)
    \/ \E d \in 1..MaxRecover : TriggerFailover(d)
    \/ RunEvent
    \/ Tick

SpecOverlap == InitOverlap /\ [][NextOverlap]_vars

\* ============================================================ MqttBroker
\* bounds of the broker scenarios
MaxBrokerTime == 3
MaxBrokerMsgs == 2
MaxProcs == 2
MaxCrashes == 1

\* random.uniform(0.01, 0.05), in hundredths of a second
MinDelay == 1
MaxDelay == 2

Downtimes == {2}

BrokerTopics == {TopicA}

\* MqttClient: each client connects with its own clean_session flag and
\* subscribes to its own filter
BrokerClients ==
    [c \in Clients |->
        IF c = "c1" THEN [clean_session |-> FALSE, filter |-> TopicA]
        ELSE [clean_session |-> TRUE, filter |-> <<"#">>]]

NoMsg == [id |-> 0, payload |-> 0]

_topic_matches(sub_filter, topic) ==
    IF sub_filter = <<"#">> THEN TRUE
    ELSE IF sub_filter = topic THEN TRUE
    ELSE FALSE

\* a process suspended in env.timeout(delay)
Timeout(kind, delay, client_id, msg, clean_session) ==
    [kind |-> kind, due |-> env_now + delay, client_id |-> client_id,
     msg |-> msg, clean_session |-> clean_session]

\* the orders in which a Python set can be iterated
Orders(S) ==
    {o \in [1..Cardinality(S) -> S] :
        \A i, j \in 1..Cardinality(S) : o[i] = o[j] => i = j}

QueueOf(c) == IF c \in DOMAIN client_queues THEN client_queues[c] ELSE <<>>

Ids(q) == [k \in 1..Len(q) |-> q[k].id]

\* broker.connect up to its yield: refused when the broker is down
MqttBroker_connect(client_id, clean_session, delay) ==
    /\ is_alive
    /\ Len(procs) < MaxProcs
    /\ procs' = Append(procs, Timeout("connect", delay, client_id, NoMsg,
                                      clean_session))
    /\ UNCHANGED <<is_alive, last_failover_start, last_failover_end,
                   subscriptions, broker_retained, client_queues,
                   connected_clients, env_now, published, received, crashes,
                   owed, replayed, wiped, left>>

\* broker.connect after the ACK latency: register, then wipe or replay
connect_ack(p, rest, delays) ==
    LET c == p.client_id
        queue == QueueOf(c)
    IN /\ connected_clients' = connected_clients \cup {c}
       /\ client_queues' = Put(client_queues, c, <<>>)
       /\ procs' = IF p.clean_session THEN rest
                   ELSE rest \o [k \in 1..Len(queue) |->
                                   Timeout("_deliver_msg", delays[k], c,
                                           queue[k], FALSE)]
       /\ owed' = [owed EXCEPT ![c] = IF p.clean_session THEN <<>>
                                       ELSE Ids(queue)]
       /\ replayed' = [replayed EXCEPT ![c] = <<>>]
       /\ wiped' = [wiped EXCEPT ![c] = IF p.clean_session
                                         THEN @ \cup Range(Ids(queue)) ELSE @]
       /\ left' = [left EXCEPT ![c] = client_queues'[c]]
       /\ UNCHANGED <<is_alive, last_failover_start, last_failover_end,
                      subscriptions, broker_retained, published, received,
                      crashes>>

\* broker._deliver_msg after its delay
_deliver_msg(p, rest) ==
    LET c == p.client_id
        sent == c \in connected_clients
    IN /\ procs' = rest
       /\ received' = IF sent THEN received \cup {<<c, p.msg.id>>}
                      ELSE received
       /\ replayed' = IF sent /\ p.msg.id \in Range(owed[c])
                      THEN [replayed EXCEPT ![c] = Append(@, p.msg.id)]
                      ELSE replayed
       /\ UNCHANGED <<is_alive, last_failover_start, last_failover_end,
                      subscriptions, broker_retained, client_queues,
                      connected_clients, published, crashes, owed, wiped,
                      left>>

\* broker.failover_sequence up to its yield
failover_sequence(downtime_s) ==
    /\ crashes < MaxCrashes
    /\ Len(procs) < MaxProcs
    /\ crashes' = crashes + 1
    /\ is_alive' = FALSE
    /\ last_failover_start' = env_now
    /\ connected_clients' = {}
    /\ procs' = Append(procs, Timeout("failover_sequence", downtime_s, "none",
                                      NoMsg, FALSE))
    /\ UNCHANGED <<last_failover_end, subscriptions, broker_retained,
                   client_queues, env_now, published, received, owed,
                   replayed, wiped, left>>

\* broker.failover_sequence after the downtime
failover_end(p, rest) ==
    /\ procs' = rest
    /\ is_alive' = TRUE
    /\ last_failover_end' = env_now
    /\ UNCHANGED <<last_failover_start, subscriptions, broker_retained,
                   client_queues, connected_clients, published, received,
                   crashes, owed, replayed, wiped, left>>

MatchedClients(topic) ==
    {cid \in Clients :
        \E f \in DOMAIN subscriptions :
            _topic_matches(f, topic) /\ cid \in subscriptions[f]}

RECURSIVE Distribute(_, _, _, _)
Distribute(order, k, msg, queues) ==
    IF k > Len(order) THEN queues
    ELSE Distribute(order, k + 1, msg,
                    IF order[k] \in connected_clients THEN queues
                    ELSE Put(queues, order[k],
                             Append(IF order[k] \in DOMAIN queues
                                    THEN queues[order[k]] ELSE <<>>, msg)))

\* broker.publish; the ACK wait of qos > 0 that follows changes no state
MqttBroker_publish(sender_id, topic, retain, order, delays) ==
    LET msg == [id |-> published + 1, payload |-> published + 1]
        online == SelectSeq(order, LAMBDA c : c \in connected_clients)
    IN /\ is_alive
       /\ published < MaxBrokerMsgs
       /\ Len(procs) < MaxProcs
       /\ published' = published + 1
       /\ broker_retained' = IF retain THEN Put(broker_retained, topic, msg.payload)
                             ELSE broker_retained
       /\ procs' = procs \o [k \in 1..Len(online) |->
                               Timeout("_deliver_msg", delays[online[k]],
                                       online[k], msg, FALSE)]
       /\ client_queues' = Distribute(order, 1, msg, client_queues)
       /\ UNCHANGED <<is_alive, last_failover_start, last_failover_end,
                      subscriptions, connected_clients, env_now, received,
                      crashes, owed, replayed, wiped, left>>

\* broker.subscribe
MqttBroker_subscribe(client_id, topic, order, delays) ==
    LET hits == SelectSeq(order, LAMBDA t : _topic_matches(topic, t))
    IN /\ is_alive
       /\ Len(procs) < MaxProcs
       /\ subscriptions' =
              Put(subscriptions, topic,
                  (IF topic \in DOMAIN subscriptions THEN subscriptions[topic]
                   ELSE {}) \cup {client_id})
       /\ procs' = procs \o [k \in 1..Len(hits) |->
                               Timeout("_deliver_msg", delays[hits[k]], client_id,
                                       [id |-> 0,
                                        payload |-> broker_retained[hits[k]]],
                                       FALSE)]
       /\ UNCHANGED <<is_alive, last_failover_start, last_failover_end,
                      broker_retained, client_queues, connected_clients,
                      env_now, published, received, crashes, owed, replayed,
                      wiped, left>>

Delays == MinDelay..MaxDelay

BrokerConnect ==
    \E c \in Clients, d \in Delays :
        /\ MqttBroker_connect(c, BrokerClients[c].clean_session, d)
        /\ UNCHANGED <<netvars, histvars, macvars, callvars, runvars, meshvars>>

BrokerPublish ==
    \E c \in Clients, t \in BrokerTopics, retain \in BOOLEAN :
        \E order \in Orders(MatchedClients(t)), delays \in [Clients -> Delays] :
            /\ MqttBroker_publish(c, t, retain, order, delays)
            /\ UNCHANGED <<netvars, histvars, macvars, callvars, runvars, meshvars>>

BrokerSubscribe ==
    \E c \in Clients :
        \E order \in Orders(DOMAIN broker_retained),
           delays \in [DOMAIN broker_retained -> Delays] :
            /\ MqttBroker_subscribe(c, BrokerClients[c].filter, order, delays)
            /\ UNCHANGED <<netvars, histvars, macvars, callvars, runvars, meshvars>>

BrokerCrash ==
    \E d \in Downtimes :
        /\ failover_sequence(d)
        /\ UNCHANGED <<netvars, histvars, macvars, callvars, runvars, meshvars>>

\* simpy resumes the process whose timeout is due, oldest first
BrokerRun ==
    /\ \E i \in 1..Len(procs) :
          /\ procs[i].due = env_now
          /\ \A j \in 1..(i - 1) : procs[j].due # env_now
          /\ LET p == procs[i]
                 rest == RemoveAt(procs, i)
             IN CASE p.kind = "connect" ->
                       \E delays \in [1..Len(QueueOf(p.client_id)) -> Delays] :
                           connect_ack(p, rest, delays)
                  [] p.kind = "_deliver_msg" -> _deliver_msg(p, rest)
                  [] p.kind = "failover_sequence" -> failover_end(p, rest)
    /\ UNCHANGED <<env_now, netvars, histvars, macvars, callvars, runvars, meshvars>>

BrokerTick ==
    /\ env_now < MaxBrokerTime
    /\ \A i \in 1..Len(procs) : procs[i].due > env_now
    /\ env_now' = env_now + 1
    /\ UNCHANGED <<is_alive, last_failover_start, last_failover_end,
                   subscriptions, broker_retained, client_queues,
                   connected_clients, procs, published, received, crashes,
                   owed, replayed, wiped, left>>
    /\ UNCHANGED <<netvars, histvars, macvars, callvars, runvars, meshvars>>

InitBroker == InitNet("none", Configs({MaxCapacity}, {0}))

NextBroker ==
    \/ BrokerConnect
    \/ BrokerPublish
    \/ BrokerSubscribe
    \/ BrokerCrash
    \/ BrokerRun
    \/ BrokerTick

SpecBroker == InitBroker /\ [][NextBroker]_vars

\* ============================================ MACScheduler and MQTTClient
\* Times are in milliseconds, power in tenths of a milliwatt, energy in
\* tenths of a microjoule and duty-cycle limits in percent.
MaxMacTime == 170
MaxMacMsgs == 3
\* NodeConfig.payload_bytes and publish_interval_s of every node
PayloadBytes == 125
PublishInterval == 30
\* SimulationConfig.zigbee_duty_cycle_window_s
ZigbeeWindow == 100
\* NodeConfig.duty_cycle_override; NoOverride stands for None
NoOverride == -1

DutyCycleOverride == [c \in Clients |-> IF c = "c1" THEN 5 ELSE NoOverride]

Phy == [c \in Clients |-> "zigbee"]

PHY_PROFILES ==
    [zigbee |-> [data_rate |-> 250, tx_power_mw |-> 350, sleep_power_mw |-> 1,
                 tx_latency_ms |-> 15, duty_cycle_limit |-> 10]]

zigbee_cw_s == 8
\* the csma_delay_sampler MQTTClient.run passes for wifi and zigbee
ClientCsmaDelay == 1
\* rng.uniform(0, backoff) of the MAC retry: its two ends
RetryBackoffs == {0, zigbee_cw_s}

DutyCycleTracker(window_s, limit) ==
    [window_s |-> window_s, limit |-> limit, usage |-> <<>>]

_prune(tracker, t) ==
    [tracker EXCEPT !.usage = SelectSeq(@, LAMBDA iv : iv[2] >= t - tracker.window_s)]

RECURSIVE SumDurations(_)
SumDurations(usage) ==
    IF usage = <<>> THEN 0
    ELSE (usage[1][2] - usage[1][1]) + SumDurations(Tail(usage))

\* can_tx after its _prune: (used + duration_s) / window_s <= limit
can_tx(tracker, duration_s) ==
    (SumDurations(tracker.usage) + duration_s) * 100 <= tracker.limit * tracker.window_s

record(tracker, start, end) == [tracker EXCEPT !.usage = Append(@, <<start, end>>)]

Duration(c) == (PayloadBytes * 8) \div PHY_PROFILES[Phy[c]].data_rate

\* tx: does the duty-cycle gate apply to this node
Gated(c) == Phy[c] = "zigbee" /\ PHY_PROFILES[Phy[c]].duty_cycle_limit # NoOverride

\* tx: duty_cycle_trackers.setdefault(node_id, DutyCycleTracker(...))
TrackerOf(c) ==
    IF c \in DOMAIN duty_cycle_trackers THEN duty_cycle_trackers[c]
    ELSE DutyCycleTracker(ZigbeeWindow,
                          IF DutyCycleOverride[c] # NoOverride
                          THEN DutyCycleOverride[c]
                          ELSE PHY_PROFILES[Phy[c]].duty_cycle_limit)

\* tx: the gate turns the transmission down
GateRejects(c) == Gated(c) /\ ~can_tx(_prune(TrackerOf(c), now), Duration(c))

\* MQTTClient.run, after tx has returned: a failed transmission skips the
\* cycle, a successful one is published
AfterTxAlways(N, c, result) ==
    LET node == N.config.nodes[c]
    IN publish(N, c, MQTTMessage(node.topic, node.qos, node.retained),
               node.gateway_id)

AfterTx(N, c, result) ==
    IF ~result.success THEN N ELSE AfterTxAlways(N, c, result)

\* MQTTClient.__init__: connect, subscribe, start the run process, which
\* waits for its first publish interval
ClientInit(c) ==
    LET node == config.nodes[c]
        will == IF node.will_topic # NoTopic
                THEN Will(node.will_topic, node.qos) ELSE NoWill
        N1 == connect(Cur, c, node.clean_session, KeepAlive, will)
    IN /\ proc[c].kind = "none"
       /\ now = 0
       /\ NetStep(Op("connect", c), subscribe(N1, c, node.topic, node.qos),
                  c :> node.clean_session)
       /\ proc' = [proc EXCEPT ![c] = Position("interval", now + PublishInterval, 0, 0, 0)]
       /\ UNCHANGED <<duty_cycle_trackers, tx_result, energy, radio_tx_s,
                      radio_sleep_s, energy_mj, runvars, meshvars>>

\* MQTTClient.run wakes from its interval and calls tx, which runs to its
\* return at the gate or to its timeout
ClientTx(c) ==
    LET tracker == _prune(TrackerOf(c), now)
        duration_s == Duration(c)
    IN /\ proc[c].kind = "interval"
       /\ proc[c].due = now
       /\ duty_cycle_trackers' =
              IF Gated(c) THEN Put(duty_cycle_trackers, c, tracker)
              ELSE duty_cycle_trackers
       /\ IF GateRejects(c)
          THEN /\ tx_result' = [tx_result EXCEPT ![c] = MACResult(FALSE, 0, 0, 0)]
               /\ LET M == AfterTx(Cur, c, tx_result'[c])
                  IN /\ Len(M.heap) <= MaxMacMsgs
                     /\ NetStep(Op("publish", c), M, <<>>)
               /\ proc' = [proc EXCEPT ![c] =
                              Position("interval", now + PublishInterval, 0, 0, 0)]
          ELSE /\ msg_counter <= MaxMacMsgs
               /\ \E retry \in BOOLEAN, backoff \in RetryBackoffs :
                     LET csma_delay == ClientCsmaDelay
                         mac_retry_s == IF retry THEN duration_s + backoff ELSE 0
                         total_tx_time_s == csma_delay + duration_s + mac_retry_s
                         latency_ms == total_tx_time_s + PHY_PROFILES[Phy[c]].tx_latency_ms
                         energy_tx == duration_s * PHY_PROFILES[Phy[c]].tx_power_mw
                     IN /\ (~retry => backoff = 0)
                        /\ now + total_tx_time_s <= MaxMacTime
                        /\ proc' = [proc EXCEPT ![c] =
                                       Position("tx", now + total_tx_time_s, now,
                                                latency_ms, energy_tx)]
               /\ UNCHANGED <<netvars, histvars, brokervars, callvars, tx_result>>
       /\ UNCHANGED <<energy, radio_tx_s, radio_sleep_s, energy_mj, runvars, meshvars>>

Get(f, k) == IF k \in DOMAIN f THEN f[k] ELSE 0

\* tx resumes after its timeout, records the interval and returns; run goes
\* on to publish and to account for the energy
ClientTxDone(c) ==
    LET p == proc[c]
        result == MACResult(TRUE, p.latency_ms, p.energy_mj, now - p.start_time)
        sleep_duration == PublishInterval - result.latency_ms
        slept == sleep_duration > 0
        e1 == [energy[c] EXCEPT !.tx_energy_mj = @ + result.energy_mj]
        e2 == IF slept
              THEN [e1 EXCEPT !.sleep_energy_mj =
                       @ + sleep_duration * PHY_PROFILES[Phy[c]].sleep_power_mw]
              ELSE e1
    IN /\ p.kind = "tx"
       /\ p.due = now
       /\ duty_cycle_trackers' =
              IF Gated(c)
              THEN Put(duty_cycle_trackers, c, record(TrackerOf(c), p.start_time, now))
              ELSE duty_cycle_trackers
       /\ tx_result' = [tx_result EXCEPT ![c] = result]
       /\ energy' = [energy EXCEPT ![c] = e2]
       /\ radio_tx_s' = Put(radio_tx_s, c, Get(radio_tx_s, c) + result.duration_s)
       /\ radio_sleep_s' =
              IF slept THEN Put(radio_sleep_s, c, Get(radio_sleep_s, c) + sleep_duration)
              ELSE radio_sleep_s
       /\ energy_mj' = Put(energy_mj, c, e2.tx_energy_mj + e2.sleep_energy_mj)
       /\ NetStep(Op("publish", c), AfterTx(Cur, c, result), <<>>)
       /\ UNCHANGED <<runvars, meshvars>>
       /\ proc' = [proc EXCEPT ![c] =
                      Position("interval", now + PublishInterval, 0, 0, 0)]

Waiting == {c \in Clients : proc[c].kind # "none"}

\* env.run moves the clock on to the earliest pending timeout
MacTick ==
    /\ Waiting # {}
    /\ \A c \in Waiting : proc[c].due > now
    /\ LET next == CHOOSE t \in {proc[c].due : c \in Waiting} :
                       \A c \in Waiting : t <= proc[c].due
       IN /\ next <= MaxMacTime
          /\ Step(Op("tick", "none"), [Cur EXCEPT !.now = next], <<>>)

InitClients == InitNet("none", Configs({MaxCapacity}, {0}))

NextClients ==
    \/ \E c \in Clients : ClientInit(c)
    \/ \E c \in Clients : ClientTx(c)
    \/ \E c \in Clients : ClientTxDone(c)
    \/ MacTick

SpecClients == InitClients /\ [][NextClients]_vars

\* ================================================= ExperimentRunner.run
\* SimulationConfig.duration_s and stats_interval_s, in seconds
duration_s == 5
StatsInterval == 2
\* the timeout of stopper
StopperPeriod == 1
\* the keep_alive MQTTClient.__init__ passes to connect
ClientKeepAlive == 30
\* env.exit() ends the calling process in simpy 3 (it raises StopProcess)
\* and does not exist in simpy 4 (AttributeError out of env.run)
SimpyBuilds == {"StopProcess", "AttributeError"}

OneNode == [c \in {"c1"} |-> (CHOOSE nodes \in NodeLists : TRUE)[c]]

RunConfigs ==
    [queue_capacity : {0, MaxCapacity},
     nodes : {<<>>, OneNode},
     wan_loss_rate : {0},
     wan_latency_ms : {0},
     wan_latency_jitter_ms : {JitterS},
     wan_reconnect_backoff : {<<BackoffMin, BackoffMax>>},
     gateway_links : {[g \in Gateways |-> [latency_ms |-> 0, loss_rate |-> 50]]}]

Waits(due) == [kind |-> "timeout", due |-> due]

Ended == [kind |-> "done", due |-> 0]

\* MQTTClient.__init__ for every node of a list, in the order of the list
RECURSIVE BuildClients(_, _)
BuildClients(N, ids) ==
    IF ids = {} THEN N
    ELSE LET c == CHOOSE x \in ids : \A y \in ids : x = "c1" \/ y # "c1"
             node == N.config.nodes[c]
             will == IF node.will_topic # NoTopic
                     THEN Will(node.will_topic, node.qos) ELSE NoWill
             N1 == connect(N, c, node.clean_session, ClientKeepAlive, will)
         IN BuildClients(subscribe(N1, c, node.topic, node.qos), ids \ {c})

\* run, up to env.run: it builds the network and the clients and starts
\* broker_process and stopper, which run to their first timeout
RunSetup ==
    /\ run_state = "none"
    /\ NetStep(Op("connect", "none"), BuildClients(Cur, DOMAIN config.nodes),
               [c \in DOMAIN config.nodes |-> config.nodes[c].clean_session])
    /\ run_state' = "running"
    /\ broker_process' = Waits(now + StatsInterval)
    /\ stopper' = Waits(now + StopperPeriod)
    /\ UNCHANGED <<stop_requested, run_result, simpy_exit, stop_at, stop_sends,
                   seen_len,
                   macvars, meshvars>>

Running == run_state = "running" /\ now < duration_s

\* the caller sets the flag stop_flag() reads
RequestStop ==
    /\ Running
    /\ ~stop_requested
    /\ stop_requested' = TRUE
    /\ stop_at' = now
    /\ stop_sends' = send_events
    /\ UNCHANGED <<netvars, histvars, brokervars, macvars, meshvars, callvars,
                   run_state, broker_process, stopper, run_result, simpy_exit,
                   seen_len>>

FirstSeen(n) == IF stop_requested /\ seen_len = NoTime THEN n ELSE seen_len

\* broker_process wakes from its timeout, processes the queue, checks the
\* keep-alives, takes a snapshot and reads the flag at the top of its loop
BrokerProcess ==
    /\ Running
    /\ broker_process = Waits(now)
    /\ \E rolls \in [1..Len(broker_queue) -> RandomOutcomes],
          jitter \in [1..Len(broker_queue) -> 0..config.wan_latency_jitter_ms] :
          LET n == Len(Targets(Cur, Surviving(broker_queue, rolls, jitter, 1), 1))
          IN \E ndup \in 0..n :
                LET M1 == process_queue(Cur, rolls, jitter, ndup)
                    M2 == check_keep_alive(M1)
                    M3 == snapshot(M2, now)
                IN /\ (ndup > 0 => duplicate_events + 2 * ndup <= MaxDups)
                   /\ NetStep(Op("process_queue", "none"), M3, ConnectsByDiff(Cur, M2))
    /\ broker_process' = IF stop_requested THEN Ended ELSE Waits(now + StatsInterval)
    /\ seen_len' = FirstSeen(Len(snapshots) + 1)
    /\ UNCHANGED <<run_state, stop_requested, stopper, run_result, simpy_exit,
                   stop_at, stop_sends, macvars, meshvars>>

\* stopper wakes, reads the flag and calls env.exit() if it is set
Stopper ==
    /\ Running
    /\ stopper = Waits(now)
    /\ broker_process # Waits(now)
    /\ seen_len' = FirstSeen(Len(snapshots))
    /\ IF ~stop_requested
       THEN stopper' = Waits(now + StopperPeriod) /\ run_state' = run_state
       ELSE IF simpy_exit = "StopProcess"
       THEN stopper' = Ended /\ run_state' = run_state
       ELSE stopper' = Ended /\ run_state' = "raised"
    /\ UNCHANGED <<netvars, histvars, brokervars, macvars, meshvars, callvars,
                   stop_requested, broker_process, run_result, simpy_exit,
                   stop_at, stop_sends>>

\* MQTTClient.run of a node of the list publishes
ClientPublish(c) == Running /\ c \in DOMAIN config.nodes /\ Publish(c)

\* an ack process of the network comes due
RunAck == Running /\ RunEvent

\* env.run moves the clock on while nothing is due
RunTick ==
    /\ Running
    /\ \A i \in 1..Len(events) : events[i].due > now
    /\ broker_process # Waits(now)
    /\ stopper # Waits(now)
    /\ Step(Op("tick", "none"), [Cur EXCEPT !.now = @ + 1], <<>>)

\* env.run(until=duration_s) returns, and run returns metrics.snapshots
RunReturn ==
    /\ run_state = "running"
    /\ now = duration_s
    /\ run_state' = "returned"
    /\ run_result' = snapshots
    /\ UNCHANGED <<netvars, histvars, brokervars, macvars, meshvars, callvars,
                   stop_requested, broker_process, stopper, simpy_exit,
                   stop_at, stop_sends,
                   seen_len>>

InitRun ==
    /\ InitState("none", RunConfigs)
    /\ NoCall
    /\ run_state = "none"
    /\ stop_requested = FALSE
    /\ broker_process = [kind |-> "none", due |-> 0]
    /\ stopper = [kind |-> "none", due |-> 0]
    /\ run_result = <<>>
    /\ simpy_exit \in SimpyBuilds
    /\ stop_at = NoTime
    /\ stop_sends = 0
    /\ seen_len = NoTime
    /\ NoMesh

NextRun ==
    \/ RunSetup
    \/ RequestStop
    \/ BrokerProcess
    \/ Stopper
    \/ \E c \in Clients : ClientPublish(c)
    \/ RunAck
    \/ RunTick
    \/ RunReturn

SpecRun == InitRun /\ [][NextRun]_vars

\* ====================================================== _match on its own
MaxTextLen == 3
\* the characters topics and filters are made of
Alphabet == {"a", "/", "#", "+"}

Texts == UNION {[1..n -> Alphabet] : n \in 0..MaxTextLen}

InitMatch ==
    /\ InitState("none", Configs({MaxCapacity}, {0}))
    /\ match_subscription \in Texts
    /\ match_topic \in Texts
    /\ match_return = <<>>
    /\ NoRun
    /\ NoMesh

CallMatch ==
    /\ match_return = <<>>
    /\ match_return' = <<Match(match_subscription, match_topic)>>
    /\ UNCHANGED <<match_subscription, match_topic, netvars, histvars,
                   brokervars, macvars, runvars, meshvars>>

NextMatch == CallMatch

SpecMatch == InitMatch /\ [][NextMatch]_vars

\* ================================================================ claims

\* C1: the ids publish assigns are strictly increasing in publish order and
\* all lie below the counter, so no id is given twice; heap order is
\* publish order, and dropped or retransmitted messages keep their id.
C1_IdsStrictlyIncreasing ==
    /\ \A h1, h2 \in 1..Len(heap) :
          (h1 < h2 /\ heap[h1].msg_id # 0 /\ heap[h2].msg_id # 0)
              => heap[h1].msg_id < heap[h2].msg_id
    /\ \A h \in 1..Len(heap) : heap[h].msg_id < msg_counter

\* two publishes, one of them retransmitted, and a counted queue drop
C1_Witness ==
    /\ msg_counter = 3
    /\ queue_drops > 0
    /\ \E h \in 1..Len(heap) : heap[h].msg_id # 0 /\ heap[h].retries > 0

\* C2: the broker queue never holds more than broker.queue_capacity messages.
C2_QueueWithinCapacity == Len(broker_queue) <= config.queue_capacity

\* a full queue that a will message or a QoS1 re-queue was offered to
C2_Witness ==
    /\ Len(broker_queue) = config.queue_capacity
    /\ since_pq.others
    /\ queue_drops > 0

\* C3: a publish offered to a full queue completes, leaves the queue as it
\* was and counts exactly one drop; an accepted publish counts none.
C3_FullQueueDropsOnce ==
    [][msg_counter' # msg_counter =>
          /\ send_events' = send_events + 1
          /\ \E i \in 1..Len(sessions') :
                /\ sessions'[i].client_id = heap'[Len(heap')].sender
                /\ sessions'[i].last_seen = now
          /\ IF Len(broker_queue) >= config.queue_capacity
             THEN broker_queue' = broker_queue /\ queue_drops' = queue_drops + 1
             ELSE /\ queue_drops' = queue_drops
                  /\ broker_queue' = Append(broker_queue, broker_queue'[Len(broker_queue')])
                  /\ broker_queue'[Len(broker_queue')].msg = Len(heap')]_vars

\* the last publish found the queue full and was dropped
C3_Witness ==
    /\ since_pq.pubs # <<>>
    /\ ~since_pq.others
    /\ queue_drops > since_pq.drops
    /\ \A i \in 1..Len(broker_queue) :
          broker_queue[i].msg # since_pq.pubs[Len(since_pq.pubs)]

\* C4: capacity 1, two publishes by different clients between two
\* process_queue calls, no loss, one matching subscriber: that process_queue
\* records exactly one delivery, and exactly one drop was counted.
C4_OneDeliveredOneDropped ==
    [][(broker_queue # <<>> /\ broker_queue' = <<>> /\ TwoPublishesQueued(Cur)) =>
          /\ delivery_events' = delivery_events + 1
          /\ Len(delivered') = 1
          /\ queue_drops' = since_pq.drops + 1]_vars

C4_Witness == since_pq.two_publishes /\ Len(delivered) = 1

\* C5: every snapshot has 0 <= delivery_ratio <= 1, that is, the deliveries
\* it was computed from do not exceed the sends.
C5_RatioWithinUnit ==
    \A i \in 1..Len(snapshots) :
        /\ 0 <= snapshots[i].delivery_ratio.num
        /\ snapshots[i].delivery_ratio.num <= snapshots[i].delivery_ratio.den

\* C6: in every snapshot delivery_ratio is 0 exactly when no delivery has
\* been recorded.
C6_RatioZeroIffNoDelivery ==
    \A i \in 1..Len(snapshots) :
        (snapshots[i].delivery_ratio.num = 0) <=> (snapshots[i].delivery_events = 0)

\* C7: a client whose most recent connect was a clean one is never recorded
\* a delivery of a message published while its session was disconnected
\* before that connect.
C7_CleanSessionGetsNoStaleMessage ==
    \A k \in 1..Len(delivered) : delivered[k][2] \notin stale_pubs[delivered[k][1]]

\* C8: the step that reconnects a disconnected persistent session records,
\* in publish order, a delivery of every message matching its subscriptions
\* that was published while it was disconnected.
C8_PersistentSessionReplay ==
    [][\A i \in 1..Len(sessions) :
          (~sessions[i].connected /\ ~sessions[i].clean_session
             /\ sessions'[i].connected)
          => LET c == sessions[i].client_id
                 mine == SelectSeq(delivered', LAMBDA d : d[1] = c /\ d[2] \in Owed(Cur, c))
             IN /\ \A h \in Owed(Cur, c) : \E k \in 1..Len(mine) : mine[k][2] = h
                /\ \A k1, k2 \in 1..Len(mine) : k1 < k2 => mine[k1][2] < mine[k2][2]]_vars

\* C9: in MqttBroker a successful connect leaves the client's offline queue
\* empty; a clean one delivers none of the messages it found queued; a
\* persistent one hands the messages it found queued to the client in
\* queue order, and once none of them is still on its way the client has
\* received each of them exactly once.
IsPrefix(a, b) == Len(a) <= Len(b) /\ SubSeq(b, 1, Len(a)) = a

C9_OfflineQueueReplay ==
    \A c \in Clients :
        /\ left[c] = <<>>
        /\ \A m \in wiped[c] : <<c, m>> \notin received
        /\ IsPrefix(replayed[c], owed[c])
        /\ (\A i \in 1..Len(procs) :
               ~(/\ procs[i].kind = "_deliver_msg"
                 /\ procs[i].client_id = c
                 /\ procs[i].msg.id \in Range(owed[c])))
           => replayed[c] = owed[c]

\* C10: while an outage is in progress trigger_failover changes nothing, at
\* most one _failover_proc exists, and the recovery step leaves every client
\* with exactly one session, connected.
FailoverProcs == SelectSeq(events, LAMBDA e : e.kind \in {"failover_start", "failover_recover"})

C10_FailoverIdempotent ==
    /\ [](/\ Len(FailoverProcs) = (IF failover_active THEN 1 ELSE 0)
          /\ failover_active =>
               \A d \in 1..MaxDown : trigger_failover(Cur, d) = Cur)
    /\ [][(failover_active /\ ~failover_active') =>
             /\ Len(sessions') = Len(sessions)
             /\ \A i \in 1..Len(sessions') :
                   /\ sessions'[i].connected
                   /\ sessions'[i].client_id = sessions[i].client_id
             /\ \A i, j \in 1..Len(sessions') :
                   sessions'[i].client_id = sessions'[j].client_id => i = j]_vars

\* an outage in progress over two disconnected sessions, its recovery pending
C10_Witness ==
    /\ failover_active
    /\ Len(sessions) = 2
    /\ \A i \in 1..Len(sessions) : ~sessions[i].connected
    /\ \E k \in 1..Len(events) : events[k].kind = "failover_recover"

\* C11: an outage started at t for down_seconds is over at t + down_seconds:
\* simulated time never passes the pending recovery, which is due within
\* down_seconds of the current time, and the step that runs it happens at its
\* due time, leaves every session connected with the clean_session flag it
\* had, clears failover_active and keeps the set of client ids.
RecoverEvents == SelectSeq(events, LAMBDA e : e.kind = "failover_recover")

C11_FailoverRecoversOnTime ==
    /\ [](\A k \in 1..Len(RecoverEvents) :
             /\ failover_active
             /\ now <= RecoverEvents[k].due
             /\ RecoverEvents[k].due <= now + RecoverEvents[k].down)
    /\ [][(RecoverEvents # <<>> /\ RecoverEvents' = <<>>) =>
             /\ now' = RecoverEvents[1].due
             /\ ~failover_active'
             /\ Len(sessions') = Len(sessions)
             /\ \A i \in 1..Len(sessions) :
                   /\ sessions'[i].client_id = sessions[i].client_id
                   /\ sessions'[i].clean_session = sessions[i].clean_session
                   /\ sessions'[i].connected]_vars

\* simulated time has reached t + down_seconds of an outage over a
\* persistent and a clean session, and the recovery is the next thing to run
C11_Witness ==
    /\ failover_active
    /\ Len(RecoverEvents) = 1
    /\ now = RecoverEvents[1].due
    /\ now = MaxDown
    /\ \E i \in 1..Len(sessions) : ~sessions[i].clean_session /\ ~sessions[i].connected
    /\ \E i \in 1..Len(sessions) : sessions[i].clean_session /\ ~sessions[i].connected

\* C12: during an outage, from its start up to but not including the time its
\* recovery is due, every persistent session is disconnected and reported
\* `reconnecting`: the step that starts the outage makes it so, and no
\* process_queue or check_keep_alive that runs inside the window changes it.
OutageWindow ==
    /\ failover_active
    /\ RecoverEvents # <<>>
    /\ now < RecoverEvents[1].due

PersistentDown(ss, cs) ==
    \A i \in 1..Len(ss) :
        ~ss[i].clean_session =>
            /\ ~ss[i].connected
            /\ ss[i].client_id \in DOMAIN cs
            /\ cs[ss[i].client_id] = "reconnecting"

IsCheckKeepAliveStep ==
    LET M == check_keep_alive(Cur)
    IN /\ sessions' = M.sessions
       /\ client_states' = M.client_states
       /\ backoff_state' = M.backoff_state
       /\ broker_queue' = M.broker_queue
       /\ heap' = M.heap
       /\ now' = now
       /\ events' = events

IsProcessQueueStep == broker_queue # <<>> /\ broker_queue' = <<>>

C12_OutageKeepsSessionsDown ==
    [][/\ (~OutageWindow /\ OutageWindow') => PersistentDown(sessions', client_states')
       /\ (/\ OutageWindow
           /\ OutageWindow'
           /\ PersistentDown(sessions, client_states)
           /\ (IsCheckKeepAliveStep \/ IsProcessQueueStep))
          => PersistentDown(sessions', client_states')]_vars

\* C13: the reconnect delay check_keep_alive schedules when a session times
\* out is the configured minimum backoff the first time, twice the client's
\* previous delay after that, and never more than the configured maximum.
C13_BackoffStartsAtMinimum ==
    [][IsCheckKeepAliveStep =>
          \A i \in 1..Len(sessions) :
              KeepAliveExpired(Cur, sessions[i]) =>
                  LET c == sessions[i].client_id
                      delay == sessions'[i].next_reconnect - now
                  IN /\ delay <= config.wan_reconnect_backoff[2]
                     /\ delay = IF c \in DOMAIN backoff_state
                                THEN Min(2 * backoff_state[c],
                                         config.wan_reconnect_backoff[2])
                                ELSE config.wan_reconnect_backoff[1]]_vars

\* what check_keep_alive does with every in-flight message whose retransmit
\* deadline has passed, when no other session holds the same message due:
\* if Exhausted(retry count) the message leaves the in-flight map and the
\* deadline map and is not offered to the queue; otherwise its retry count
\* grows by one, its dup flag is set, it is offered to the queue again and
\* it stays in flight
DeadlinePassed(s, k) ==
    \E e \in 1..Len(s.pending_retransmit) :
        s.pending_retransmit[e].id = k /\ now >= s.pending_retransmit[e].deadline

Requeued(h) ==
    \/ \E j \in (Len(broker_queue) + 1)..Len(broker_queue') : broker_queue'[j].msg = h
    \/ queue_drops' > queue_drops

RetransmitRule(Exhausted(_)) ==
    IsCheckKeepAliveStep =>
        \A i \in 1..Len(sessions) : \A k \in DOMAIN sessions[i].inflight :
            (/\ DeadlinePassed(sessions[i], k)
             /\ \A j \in 1..Len(sessions) :
                   (j # i /\ k \in DOMAIN sessions[j].inflight)
                       => ~DeadlinePassed(sessions[j], k))
            => LET h == sessions[i].inflight[k]
               IN IF Exhausted(heap[h].retries)
                  THEN /\ k \notin DOMAIN sessions'[i].inflight
                       /\ ~HasKey(sessions'[i].pending_retransmit, k)
                       /\ ~Requeued(h)
                  ELSE /\ heap'[h].retries = heap[h].retries + 1
                       /\ heap'[h].dup
                       /\ k \in DOMAIN sessions'[i].inflight
                       /\ Requeued(h)

\* C14, as stated: a message is retransmitted at every passed deadline and
\* is removed, without retransmission, once its retry count exceeds
\* retry_limit.
C14_RemovedWhenCountExceedsLimit ==
    [][RetransmitRule(LAMBDA retry_count : retry_count > retry_limit)]_vars

\* C14, amended: a message is retransmitted at a passed deadline while its
\* retry count is below retry_limit, and is removed, without
\* retransmission, at the first passed deadline that finds the count at
\* retry_limit; retries never decreases and never exceeds retry_limit, so a
\* removed message is never offered again by check_keep_alive.
C14_RemovedWhenCountReachesLimit ==
    /\ [][RetransmitRule(LAMBDA retry_count : retry_count >= retry_limit)]_vars
    /\ [](\A h \in 1..Len(heap) : heap[h].retries <= retry_limit)
    /\ [][\A h \in 1..Len(heap) : heap'[h].retries >= heap[h].retries]_vars

\* a message delivered retry_limit + 1 times, none of the deliveries acked
\* yet, has been retransmitted retry_limit times and is in flight nowhere
C14_Witness ==
    /\ \E h \in 1..Len(heap) : heap[h].retries = retry_limit /\ heap[h].dup
    /\ delivery_events = retry_limit + 1
    /\ Len(SelectSeq(events, LAMBDA e : e.kind = "ack")) = retry_limit + 1
    /\ \A i \in 1..Len(sessions) :
          sessions[i].inflight = <<>> /\ sessions[i].pending_retransmit = <<>>

\* the ways an entry k can leave the in-flight map of session i in one step
AckedNow(i, k) ==
    \E e \in 1..Len(events) :
        /\ events[e].kind = "ack"
        /\ events[e].client = sessions[i].client_id
        /\ events[e].key = k
        /\ events' = RemoveAt(events, e)

ExhaustedNow(i, k) ==
    /\ IsCheckKeepAliveStep
    /\ DeadlinePassed(sessions[i], k)
    /\ heap'[sessions[i].inflight[k]].retries >= retry_limit

ReplacedByCleanConnect(i) ==
    /\ sessions[i].clean_session
    /\ sessions'[i].connected
    /\ sessions'[i].last_seen = now
    /\ sessions'[i].inflight = <<>>
    /\ sessions'[i].pending_retransmit = <<>>
    /\ sessions'[i].subscriptions = <<>>

Leaves(i, k) ==
    k \in DOMAIN sessions[i].inflight /\ k \notin DOMAIN sessions'[i].inflight

\* C15, as stated: an entry leaves a session's in-flight map only in a step
\* that acks that message id for that client or in a check_keep_alive that
\* finds its deadline passed and its retries used up.
C15_InflightLeavesByAckOrExhaustion ==
    [][\A i \in 1..Len(sessions) : \A k \in DOMAIN sessions[i].inflight :
          Leaves(i, k) => (AckedNow(i, k) \/ ExhaustedNow(i, k))]_vars

\* C15, amended: an entry leaves a session's in-flight map only by an ack,
\* by retry exhaustion, or because a connect with clean_session set replaced
\* the whole session by a fresh one; a connect that resumes a persistent
\* session removes nothing.
C15_InflightLeavesByAckExhaustionOrCleanConnect ==
    [][\A i \in 1..Len(sessions) : \A k \in DOMAIN sessions[i].inflight :
          Leaves(i, k) =>
              \/ AckedNow(i, k)
              \/ ExhaustedNow(i, k)
              \/ ReplacedByCleanConnect(i)]_vars

\* a clean session that was replaced while a delivery to it was unacked: the
\* ack is still on its way, the in-flight entry and the subscription are gone
C15_Witness ==
    \E i \in 1..Len(sessions) :
        /\ sessions[i].clean_session
        /\ sessions[i].inflight = <<>>
        /\ sessions[i].subscriptions = <<>>
        /\ \E e \in 1..Len(events) :
              events[e].kind = "ack" /\ events[e].client = sessions[i].client_id
        /\ \A h \in 1..Len(heap) : heap[h].retries = 0

\* C16: (a) a process_queue step starts one ack process per QoS1 delivery it
\* records, due at t + l, and leaves the message in flight at its receiver
\* with deadline t + 2l, l the latency of the receiver's last delivery of
\* it; (b) the step that runs an ack happens at its due time, removes the
\* message and its deadline from that session and changes nothing else, and
\* changes nothing at all if the message is not in flight; (c) every
\* in-flight entry has an ack on its way; (d) so, unless deliveries go on
\* being recorded for ever, every in-flight map is empty again and again.
NewAcks == SubSeq(events', Len(events) + 1, Len(events'))

AckFor(e, cid, k) == e.kind = "ack" /\ e.client = cid /\ e.key = k

Deadline(s, k) ==
    s.pending_retransmit[CHOOSE e \in 1..Len(s.pending_retransmit) :
                             s.pending_retransmit[e].id = k].deadline

InflightEmpty == \A i \in 1..Len(sessions) : sessions[i].inflight = <<>>

C16_QoS1DeliveriesAreAcked ==
    /\ [][IsProcessQueueStep =>
             /\ Len(events') >= Len(events)
             /\ SubSeq(events', 1, Len(events)) = events
             /\ Len(NewAcks) =
                    Len(SelectSeq(delivered', LAMBDA d : heap[d[2]].qos = 1))
             /\ \A n \in 1..Len(NewAcks) :
                   LET e == NewAcks[n]
                       s == Sess([sessions |-> sessions'], e.client)
                   IN /\ e.kind = "ack"
                      /\ e.due >= now
                      /\ e.key \in DOMAIN s.inflight
                      /\ HasKey(s.pending_retransmit, e.key)
                      /\ \E m \in 1..Len(NewAcks) :
                            /\ AckFor(NewAcks[m], e.client, e.key)
                            /\ Deadline(s, e.key) = now + 2 * (NewAcks[m].due - now)]_vars
    /\ [][\A x \in 1..Len(events) :
             (events[x].kind = "ack" /\ events' = RemoveAt(events, x)) =>
                 LET k == events[x].key
                     i == SessIdx(Cur, events[x].client)
                 IN /\ now = events[x].due
                    /\ now' = now
                    /\ k \notin DOMAIN sessions'[i].inflight
                    /\ ~HasKey(sessions'[i].pending_retransmit, k)
                    /\ sessions' = [sessions EXCEPT
                           ![i].inflight = [y \in (DOMAIN @) \ {k} |-> @[y]],
                           ![i].pending_retransmit = SelectSeq(@, LAMBDA p : p.id # k)]
                    /\ k \notin DOMAIN sessions[i].inflight => sessions' = sessions
                    /\ UNCHANGED <<heap, broker_queue, retained, msg_counter,
                                   send_events, delivery_events, queue_drops,
                                   client_states, backoff_state>>]_vars
    /\ [](\A i \in 1..Len(sessions) : \A k \in DOMAIN sessions[i].inflight :
             \E x \in 1..Len(events) : AckFor(events[x], sessions[i].client_id, k))
    /\ ([]<>InflightEmpty \/ []<><<delivery_events' > delivery_events>>_vars)

\* a QoS1 delivery made with a latency of one time unit: in flight with a
\* deadline two units ahead, its ack one unit ahead
C16_Witness ==
    \E i \in 1..Len(sessions) : \E k \in DOMAIN sessions[i].inflight :
        /\ HasKey(sessions[i].pending_retransmit, k)
        /\ Deadline(sessions[i], k) = now + 2
        /\ \E x \in 1..Len(events) :
              AckFor(events[x], sessions[i].client_id, k) /\ events[x].due = now + 1

\* C17: at every instant, for every node with a tracker, the recorded
\* transmit intervals cover at most limit * window_s of the trailing
\* window (only the part of an interval that lies inside the window counts).
Max(a, b) == IF a >= b THEN a ELSE b

RECURSIVE TimeInWindow(_, _, _)
TimeInWindow(usage, from, to) ==
    IF usage = <<>> THEN 0
    ELSE Max(0, Min(usage[1][2], to) - Max(usage[1][1], from))
         + TimeInWindow(Tail(usage), from, to)

C17_DutyCycleWithinLimit ==
    \A c \in DOMAIN duty_cycle_trackers :
        LET tracker == duty_cycle_trackers[c]
        IN TimeInWindow(tracker.usage, now - tracker.window_s, now) * 100
               <= tracker.limit * tracker.window_s

\* C18: a step in which a client wakes from its publish interval and the
\* duty-cycle gate turns its transmission down leaves success = false with
\* zero latency, energy and duration as the result, the clock where it was
\* and no new interval in the tracker (can_tx may only prune); the message
\* counter, the send counter, the broker queue, the message objects and
\* the client's energy stay as they were, and the client is back in the
\* timeout of a whole publish interval.
IsSubSeq(small, big) ==
    \E keep \in SUBSET (1..Len(big)) :
        small = SelectSeq(big, LAMBDA iv : \E i \in keep : big[i] = iv)

C18_RejectedTxSkipsCycle ==
    [][\A c \in Clients :
          (/\ proc[c].kind = "interval"
           /\ proc[c].due = now
           /\ proc'[c] # proc[c]
           /\ GateRejects(c))
          => /\ tx_result'[c] = [success |-> FALSE, latency_ms |-> 0,
                                 energy_mj |-> 0, duration_s |-> 0]
             /\ now' = now
             /\ c \in DOMAIN duty_cycle_trackers'
             /\ IsSubSeq(duty_cycle_trackers'[c].usage, TrackerOf(c).usage)
             /\ UNCHANGED <<msg_counter, send_events, broker_queue, heap,
                            retained, queue_drops, sessions, energy,
                            energy_mj, radio_tx_s, radio_sleep_s>>
             /\ proc'[c].kind = "interval"
             /\ proc'[c].due = now + PublishInterval]_vars

\* a client whose last transmission was turned down although it has
\* transmitted before, back in its publish interval
C18_Witness ==
    \E c \in DOMAIN duty_cycle_trackers :
        /\ duty_cycle_trackers[c].usage # <<>>
        /\ ~tx_result[c].success
        /\ proc[c].kind = "interval"
        /\ proc[c].due = now + PublishInterval
        /\ msg_counter > 1

\* C19: _match(filter, topic) returns true exactly when the filter is the
\* topic, or the filter's last two characters are "/#" and the topic begins
\* with the characters of the filter before them; so it returns false for a
\* bare "#", for a "+" level and for a "#" that is not the final "/#",
\* unless filter and topic are the same text.
HashFilter(f) == Len(f) >= 2 /\ f[Len(f) - 1] = "/" /\ f[Len(f)] = "#"

SharesPrefix(f, t) ==
    /\ Len(t) >= Len(f) - 2
    /\ \A i \in 1..(Len(f) - 2) : t[i] = f[i]

C19_MatchExactOrPrefixHash ==
    match_return # <<>> =>
        LET f == match_subscription
            t == match_topic
        IN /\ match_return[1] <=> (f = t \/ (HashFilter(f) /\ SharesPrefix(f, t)))
           /\ (f # t /\ ~HashFilter(f)) => ~match_return[1]
           /\ (f = <<"#">> /\ t # f) => ~match_return[1]

\* the filter "a/#" was matched against the topic "a/a" and returned true
C19_Witness ==
    /\ match_subscription = <<"a", "/", "#">>
    /\ match_topic = <<"a", "/", "a">>
    /\ match_return = <<TRUE>>

\* C20: (a) a step that is a subscribe of client c to its topic leaves the
\* topic registered with its qos in c's session, the other subscriptions as
\* they were, and records one delivery, of the retained message stored
\* under exactly that topic text, if there is one, and no delivery
\* otherwise; (b) the retained map holds, for every topic, the latest
\* message published to it with the retain flag, and nothing else.
IsSubscribeStep(c) ==
    /\ HasSession(Cur, c)
    /\ LET M == subscribe(Cur, c, config.nodes[c].topic, config.nodes[c].qos)
       IN /\ sessions' = M.sessions
          /\ delivery_events' = M.delivery_events
          /\ delivered' = M.delivered
    /\ UNCHANGED <<now, heap, retained, broker_queue, events, msg_counter,
                   send_events, queue_drops, client_states>>

RetainedPublishes(t) ==
    {h \in 1..Len(heap) : heap[h].retain /\ heap[h].msg_id # 0 /\ heap[h].topic = t}

C20_SubscribeDeliversExactRetained ==
    /\ [][\A c \in Clients :
             IsSubscribeStep(c) =>
                 LET topic == config.nodes[c].topic
                     i == SessIdx(Cur, c)
                     stored == \E t \in DOMAIN retained : t = topic
                 IN /\ topic \in DOMAIN sessions'[i].subscriptions
                    /\ sessions'[i].subscriptions[topic] = config.nodes[c].qos
                    /\ \A t \in DOMAIN sessions[i].subscriptions :
                          t # topic => /\ t \in DOMAIN sessions'[i].subscriptions
                                       /\ sessions'[i].subscriptions[t] =
                                              sessions[i].subscriptions[t]
                    /\ DOMAIN sessions'[i].subscriptions =
                           DOMAIN sessions[i].subscriptions \cup {topic}
                    /\ stored => /\ delivery_events' = delivery_events + 1
                                 /\ delivered' = <<<<c, retained[topic]>>>>
                    /\ ~stored => /\ delivery_events' = delivery_events
                                  /\ delivered' = <<>>]_vars
    /\ [](\A t \in DOMAIN retained :
             /\ retained[t] \in RetainedPublishes(t)
             /\ \A h \in RetainedPublishes(t) : h <= retained[t])
    /\ [](\A h \in 1..Len(heap) :
             (heap[h].retain /\ heap[h].msg_id # 0) => heap[h].topic \in DOMAIN retained)

\* c1 has just subscribed to "a" and was handed the retained message, the
\* second published to "a" with the retain flag, which is still queued
C20_Witness ==
    /\ TopicA \in DOMAIN retained
    /\ Cardinality(RetainedPublishes(TopicA)) = 2
    /\ delivered = <<<<"c1", retained[TopicA]>>>>
    /\ \E q \in 1..Len(broker_queue) : broker_queue[q].msg = retained[TopicA]
    /\ HasSession(Cur, "c1")
    /\ TopicA \in DOMAIN Sess(Cur, "c1").subscriptions

\* C21: a step that is a disconnect of client c leaves c's session not
\* connected and, when the session has a last will, creates exactly one
\* message on the will topic that is treated as a publish: it takes the
\* next message id, which moves the counter on, it is counted as a send,
\* and it is either appended to the queue with the WAN loss and latency or,
\* the queue being full, counted as a drop; without a will nothing is
\* created, sent or queued.
IsDisconnectStep(c) ==
    /\ HasSession(Cur, c)
    /\ LET M == disconnect(Cur, c)
       IN /\ sessions' = M.sessions
          /\ heap' = M.heap
          /\ broker_queue' = M.broker_queue
          /\ queue_drops' = M.queue_drops
          /\ client_states' = M.client_states
          /\ Len(M.heap) > Len(heap) \/ Sess(Cur, c).connected
    /\ UNCHANGED <<now, events, retained, delivery_events>>

C21_WillIsPublished ==
    [][\A c \in Clients :
          IsDisconnectStep(c) =>
              LET s == Sess(Cur, c)
                  i == SessIdx(Cur, c)
                  h == Len(heap) + 1
              IN /\ ~sessions'[i].connected
                 /\ IF s.will_topic # NoTopic /\ s.will_message
                    THEN /\ Len(heap') = h
                         /\ heap'[h].topic = s.will_topic
                         /\ heap'[h].qos = s.will_qos
                         /\ heap'[h].sender = c
                         /\ heap'[h].msg_id = msg_counter
                         /\ msg_counter' = msg_counter + 1
                         /\ send_events' = send_events + 1
                         /\ IF Len(broker_queue) >= config.queue_capacity
                            THEN /\ broker_queue' = broker_queue
                                 /\ queue_drops' = queue_drops + 1
                            ELSE /\ broker_queue' =
                                        Append(broker_queue,
                                               [msg |-> h,
                                                latency_ms |-> config.wan_latency_ms,
                                                loss_rate |-> config.wan_loss_rate])
                                 /\ queue_drops' = queue_drops
                    ELSE UNCHANGED <<heap, msg_counter, send_events,
                                     broker_queue, queue_drops>>]_vars

\* C22: a run that was never stopped, with the one QoS1 publisher c1, which
\* is also the one subscriber of its topic and stayed connected, a lossless
\* WAN, a queue that never turned a message away and nothing left in
\* transit when it returned, ends with as many deliveries as sends and a
\* duplicate counter of 0, whatever the random draws were.
LosslessSinglePublisherRun ==
    /\ run_state = "returned"
    /\ ~stop_requested
    /\ config.nodes = OneNode
    /\ config.nodes["c1"].qos = 1
    /\ config.wan_loss_rate = 0
    /\ queue_drops = 0
    /\ send_events > 0
    /\ Len(sessions) = 1
    /\ sessions[1].connected
    /\ \A h \in 1..Len(heap) : heap[h].msg_id # 0 /\ heap[h].sender = "c1"
    /\ broker_queue = <<>>
    /\ events = <<>>

C22_LosslessRunDeliversAll ==
    LosslessSinglePublisherRun =>
        /\ delivery_events = send_events
        /\ duplicate_events = 0
        /\ run_result # <<>>
        /\ run_result[Len(run_result)].duplicates = 0

\* C23: once the stop flag is set, every process of the run sees it at its
\* next suspension point and does nothing more: a client finishes at most
\* the publish it was suspended before, so the sends recorded since the
\* flag was set never exceed one per client, and broker_process finishes
\* at most one more round, so at most one snapshot is taken after the time
\* the flag was set.
SnapshotsAfterStop ==
    {i \in 1..Len(snapshots) : snapshots[i].timestamp >= stop_at}

C23_StopFlagEndsEveryProcess ==
    stop_requested =>
        /\ send_events - stop_sends <= Cardinality(DOMAIN config.nodes)
        /\ Cardinality(SnapshotsAfterStop) <= 1

\* C24: a run whose stop flag was set ends by returning, never by raising,
\* and what it returns is the snapshots that had been taken when a process
\* of the run first read the flag as set, in the order they were taken.
RunEnded == run_state \in {"returned", "raised"}

C24_StopReturnsPartialSnapshots ==
    (stop_requested /\ RunEnded) =>
        /\ run_state = "returned"
        /\ run_result = IF seen_len = NoTime THEN snapshots
                        ELSE SubSeq(snapshots, 1, seen_len)

\* C25: within a run the snapshot sequence is ordered by strictly growing
\* timestamps, and a step of the run either leaves it as it is or appends
\* one snapshot whose timestamp is greater than the last one's: no snapshot
\* already in the sequence is removed or altered.
StrictlyOrdered(snaps) ==
    \A i \in 1..Len(snaps) - 1 : snaps[i].timestamp < snaps[i + 1].timestamp

AppendsOne(old, new) ==
    /\ Len(new) = Len(old) + 1
    /\ SubSeq(new, 1, Len(old)) = old
    /\ old # <<>> => old[Len(old)].timestamp < new[Len(new)].timestamp

C25_SnapshotsAppendOnlyOrdered ==
    /\ [](run_state # "none" => StrictlyOrdered(snapshots))
    /\ [][run_state # "none" =>
             \/ snapshots' = snapshots
             \/ AppendsOne(snapshots, snapshots')]_vars

\* a run whose second snapshot follows a first one that recorded a send
C25_Witness ==
    /\ run_state = "returned"
    /\ Len(run_result) = 2
    /\ run_result[1].send_events > 0
    /\ run_result[1].timestamp = StatsInterval
    /\ run_result[2].timestamp = 2 * StatsInterval

\* C29: a run whose configuration has a broker queue capacity below 1 or an
\* empty node list never gets past its setup: it does not start running,
\* the clock never moves, nothing is published, queued or dropped and no
\* snapshot is taken.
InvalidConfig ==
    \/ config.queue_capacity < 1
    \/ DOMAIN config.nodes = {}

C29_InvalidConfigIsRejected ==
    InvalidConfig =>
        /\ run_state \notin {"running", "returned"}
        /\ now = 0
        /\ send_events = 0
        /\ queue_drops = 0
        /\ snapshots = <<>>

\* =============================== SensorNode and MqttClient (mesh variant)
\* the node moves on the positions 0..MaxX of a line
MaxX == 7
\* radio.config["range_m"] of the node's radio
RangeM == 2
\* where the gateway and the other sensor stand
GatePos == 0
PeerPos == 4
\* failed connection attempts in a row the model follows
MaxMeshRetries == 5
\* messages the application loop publishes
MaxQueued == 2
\* a radio with a range below this makes the node a mesh node
MeshRange == 100
\* MqttClient.backoff at construction and after a successful connect
MqttBackoffMin == 1
\* the cap of MqttClient.backoff
MqttBackoffCap == 10

SelfId == "c1"
PeerId == "c2"
GateId == "Gate1"
\* network_lookup_fn(), in its order
AllNodes == <<GateId, SelfId, PeerId>>

NoParent == "None"
NoLink == <<>>

\* math.hypot on a line
Dist(x, y) == IF x >= y THEN x - y ELSE y - x

PosOf(n) == IF n = GateId THEN GatePos ELSE IF n = PeerId THEN PeerPos ELSE node_x

StateOf(n) == IF n = GateId THEN "active" ELSE IF n = PeerId THEN peer_state ELSE node_state

\* a radio that reaches any distance
can_reachAnywhere(dist_m) == TRUE

\* AbstractRadio.can_reach
can_reach(dist_m) == dist_m <= RangeM

is_mesh == RangeM < MeshRange

Candidates ==
    {i \in 1..Len(AllNodes) :
        LET n == AllNodes[i]
        IN /\ n # SelfId
           /\ can_reach(Dist(node_x, PosOf(n)))
           /\ \/ n = GateId
              \/ is_mesh /\ StateOf(n) = "active"}

\* SensorNode.get_network_link: the closest candidate, the first of the
\* list among equally close ones (the sort is stable), or None
get_network_link ==
    IF Candidates = {} THEN NoLink
    ELSE LET d(i) == Dist(node_x, PosOf(AllNodes[i]))
             best == CHOOSE i \in Candidates :
                         \A j \in Candidates :
                             d(i) < d(j) \/ (d(i) = d(j) /\ i <= j)
         IN <<d(best), AllNodes[best]>>

\* a backoff that doubles without a cap
NextBackoffUncapped(b) == b * 2

\* the backoff after a failed attempt
NextBackoff(b) == Min(b * 2, MqttBackoffCap)

MeshFrame == UNCHANGED <<netvars, histvars, macvars, callvars, runvars>>

\* battery_j is followed only as far as its sign: a call of consume_energy
\* may be the one that exhausts the battery, and every call after it finds
\* it exhausted
Exhausts == IF battery_low THEN {TRUE} ELSE BOOLEAN

\* SensorNode.consume_energy: the battery and the active flag
consume_energy(exhausted) ==
    /\ battery_low' = exhausted
    /\ node_active' = IF exhausted THEN FALSE ELSE node_active

\* SensorNode.consume_energy: the state of the node
StateAfterEnergy(state, exhausted) == IF exhausted THEN "dead" ELSE state

\* attempt_connect, the branch of a failed attempt up to its timeout(wait),
\* entered in a given state of the node
ConnectFailedIn(state) ==
    /\ client_retry_count < MaxMeshRetries
    /\ client_connected' = FALSE
    /\ connected_parent_id' = NoParent
    /\ client_retry_count' = client_retry_count + 1
    /\ node_state' = IF state # "disconnected" THEN "scanning" ELSE state
    /\ network_loop' = "backoff"
    /\ UNCHANGED client_backoff

ConnectFailed == ConnectFailedIn(node_state)

\* attempt_connect, the branch of a successful attempt
ConnectSucceeded ==
    /\ client_connected' = TRUE
    /\ client_backoff' = MqttBackoffMin
    /\ client_retry_count' = 0
    /\ connected_parent_id' = link[2]
    /\ node_state' = IF node_state \in {"broker_down", "disconnected", "scanning"}
                     THEN "active" ELSE node_state
    /\ network_loop' = "top"

\* network_loop finds the node manually disconnected
LoopDisconnected ==
    /\ network_loop = "top"
    /\ node_state = "disconnected"
    /\ client_connected' = FALSE
    /\ network_loop' = "sleep"
    /\ UNCHANGED <<node_x, node_state, connected_parent_id, client_backoff,
                   client_retry_count, link, peer_state, brokervars,
                   lifevars, queuevars>>
    /\ MeshFrame

\* a timeout of network_loop outside attempt_connect ends
LoopWake ==
    /\ network_loop = "sleep"
    /\ network_loop' = "top"
    /\ UNCHANGED <<node_x, node_state, connected_parent_id, client_connected,
                   client_backoff, client_retry_count, link, peer_state,
                   brokervars, lifevars, queuevars>>
    /\ MeshFrame

\* attempt_connect up to its first timeout: the link check
AttemptConnect ==
    /\ network_loop = "top"
    /\ node_state # "disconnected"
    /\ ~client_connected
    /\ link' = get_network_link
    /\ IF link' # NoLink
       THEN /\ network_loop' = "tx"
            /\ UNCHANGED <<node_state, connected_parent_id, client_connected,
                           client_backoff, client_retry_count>>
       ELSE ConnectFailed
    /\ UNCHANGED <<node_x, peer_state, brokervars, lifevars, queuevars>>
    /\ MeshFrame

\* the transmission is over, its energy is consumed and broker.connect is
\* called: a broker that is down returns False at once
ConnectCall ==
    /\ network_loop = "tx"
    /\ \E exhausted \in Exhausts :
          /\ consume_energy(exhausted)
          /\ IF is_alive
             THEN /\ network_loop' = "ack"
                  /\ node_state' = StateAfterEnergy(node_state, exhausted)
                  /\ UNCHANGED <<connected_parent_id, client_connected,
                                 client_backoff, client_retry_count>>
             ELSE ConnectFailedIn(StateAfterEnergy(node_state, exhausted))
    /\ UNCHANGED <<node_x, link, peer_state, brokervars, queuevars>>
    /\ MeshFrame

\* broker.connect after its ACK latency, with clean_session, and the rest
\* of attempt_connect
ConnectAck ==
    /\ network_loop = "ack"
    /\ connected_clients' = connected_clients \cup {SelfId}
    /\ client_queues' = Put(client_queues, SelfId, <<>>)
    /\ ConnectSucceeded
    /\ UNCHANGED <<node_x, link, peer_state, is_alive, last_failover_start,
                   last_failover_end, subscriptions, broker_retained, env_now,
                   procs, published, received, crashes, owed, replayed, wiped,
                   left, lifevars, queuevars>>
    /\ MeshFrame

\* the timeout(wait) of a failed attempt ends
BackoffDone ==
    /\ network_loop = "backoff"
    /\ client_backoff' = NextBackoff(client_backoff)
    /\ network_loop' = "top"
    /\ UNCHANGED <<node_x, node_state, connected_parent_id, client_connected,
                   client_retry_count, link, peer_state, brokervars,
                   lifevars, queuevars>>
    /\ MeshFrame

\* network_loop of a connected client with nothing queued: send_ping with
\* the energy of its transmission, or idle
SendPing ==
    /\ network_loop = "top"
    /\ node_state # "disconnected"
    /\ client_connected
    /\ msg_queue = <<>>
    /\ IF get_network_link = NoLink
       THEN /\ client_connected' = FALSE
            /\ network_loop' = "top"
            /\ UNCHANGED <<node_state, lifevars>>
       ELSE /\ client_connected' = client_connected
            /\ network_loop' = "sleep"
            /\ \E exhausted \in Exhausts :
                  /\ consume_energy(exhausted)
                  /\ node_state' = StateAfterEnergy(node_state, exhausted)
    /\ UNCHANGED <<node_x, connected_parent_id, client_backoff,
                   client_retry_count, link, peer_state, brokervars, queuevars>>
    /\ MeshFrame

\* network_loop of a connected client pops the head of its queue and
\* send_publish checks the link: without one the message goes back
SendPublish ==
    /\ network_loop = "top"
    /\ node_state # "disconnected"
    /\ client_connected
    /\ msg_queue # <<>>
    /\ IF get_network_link = NoLink
       THEN /\ client_connected' = FALSE
            /\ node_state' = "scanning"
            /\ connected_parent_id' = NoParent
            /\ requeued' = TRUE
            /\ UNCHANGED <<network_loop, msg_queue, sending>>
       ELSE /\ sending' = Head(msg_queue)
            /\ msg_queue' = Tail(msg_queue)
            /\ network_loop' = "pub_tx"
            /\ UNCHANGED <<node_state, connected_parent_id, client_connected,
                           requeued>>
    /\ UNCHANGED <<node_x, client_backoff, client_retry_count, link, peer_state,
                   brokervars, lifevars, enqueued, handed>>
    /\ MeshFrame

\* send_publish after its transmission: the energy is consumed and
\* broker.publish is called, which returns False at once when the broker is
\* down and else records the publish; the broker has no subscriber
PublishCall ==
    /\ network_loop = "pub_tx"
    /\ \E exhausted \in Exhausts :
          /\ consume_energy(exhausted)
          /\ node_state' = StateAfterEnergy(node_state, exhausted)
    /\ IF ~is_alive
       THEN /\ client_connected' = FALSE
            /\ network_loop' = "pub_wait"
            /\ UNCHANGED <<published, handed>>
       ELSE /\ published' = published + 1
            /\ handed' = Append(handed, sending)
            /\ network_loop' = "pub_ack"
            /\ UNCHANGED client_connected
    /\ UNCHANGED <<node_x, connected_parent_id, client_backoff,
                   client_retry_count, link, peer_state, msg_queue, sending,
                   enqueued, requeued,
                   is_alive, last_failover_start, last_failover_end,
                   subscriptions, broker_retained, client_queues,
                   connected_clients, env_now, procs, received, crashes, owed,
                   replayed, wiped, left>>
    /\ MeshFrame

\* send_publish after its transmission when broker.publish raises (a
\* listener of the metrics fails): the message goes back at once
PublishRaised ==
    /\ network_loop = "pub_tx"
    /\ is_alive
    /\ \E exhausted \in Exhausts :
          /\ consume_energy(exhausted)
          /\ node_state' = StateAfterEnergy(node_state, exhausted)
    /\ client_connected' = FALSE
    /\ msg_queue' = <<sending>> \o msg_queue
    /\ sending' = 0
    /\ requeued' = TRUE
    /\ network_loop' = "top"
    /\ UNCHANGED <<node_x, connected_parent_id, client_backoff,
                   client_retry_count, link, peer_state, brokervars, enqueued,
                   handed>>
    /\ MeshFrame

\* broker.publish returns True after its ACK latency and send_publish ends
PublishAck ==
    /\ network_loop = "pub_ack"
    /\ sending' = 0
    /\ network_loop' = "top"
    /\ UNCHANGED <<node_x, node_state, connected_parent_id, client_connected,
                   client_backoff, client_retry_count, link, peer_state,
                   brokervars, lifevars, msg_queue, enqueued, handed, requeued>>
    /\ MeshFrame

\* a requeue that puts the message behind the ones that wait
PublishRequeueLast ==
    /\ network_loop = "pub_wait"
    /\ msg_queue' = Append(msg_queue, sending)
    /\ sending' = 0
    /\ requeued' = TRUE
    /\ network_loop' = "top"
    /\ UNCHANGED <<node_x, node_state, connected_parent_id, client_connected,
                   client_backoff, client_retry_count, link, peer_state,
                   brokervars, lifevars, enqueued, handed>>
    /\ MeshFrame

\* send_publish without an ACK, after its timeout(1.0): the message goes
\* back to the head of the queue
PublishRequeue ==
    /\ network_loop = "pub_wait"
    /\ msg_queue' = <<sending>> \o msg_queue
    /\ sending' = 0
    /\ requeued' = TRUE
    /\ network_loop' = "top"
    /\ UNCHANGED <<node_x, node_state, connected_parent_id, client_connected,
                   client_backoff, client_retry_count, link, peer_state,
                   brokervars, lifevars, enqueued, handed>>
    /\ MeshFrame

\* app_loop, one pass of a node that is not manually disconnected: it
\* consumes energy and, when the client is connected, publishes
AppLoop ==
    /\ node_state \notin {"none", "disconnected"}
    /\ node_active
    /\ ~battery_low
    /\ client_connected => enqueued < MaxQueued
    /\ \E exhausted \in Exhausts :
          /\ consume_energy(exhausted)
          /\ node_state' = StateAfterEnergy(node_state, exhausted)
    /\ IF client_connected
       THEN /\ enqueued' = enqueued + 1
            /\ msg_queue' = Append(msg_queue, enqueued + 1)
       ELSE UNCHANGED <<enqueued, msg_queue>>
    /\ UNCHANGED <<node_x, connected_parent_id, client_connected,
                   client_backoff, client_retry_count, network_loop, link,
                   peer_state, brokervars, sending, handed, requeued>>
    /\ MeshFrame

\* SensorNode.stop
StopNode ==
    /\ node_state # "none"
    /\ node_active
    /\ node_active' = FALSE
    /\ node_state' = "dead"
    /\ UNCHANGED <<node_x, connected_parent_id, client_connected,
                   client_backoff, client_retry_count, network_loop, link,
                   peer_state, brokervars, battery_low, queuevars>>
    /\ MeshFrame

\* SensorNode.toggle_connection, from the GUI
ToggleConnection ==
    /\ node_state # "none"
    /\ IF node_state = "disconnected"
       THEN /\ node_state' = "scanning"
            /\ UNCHANGED connected_parent_id
       ELSE /\ node_state' = "disconnected"
            /\ connected_parent_id' = NoParent
    /\ client_connected' = FALSE
    /\ UNCHANGED <<node_x, client_backoff, client_retry_count, network_loop,
                   link, peer_state, brokervars, lifevars, queuevars>>
    /\ MeshFrame

\* the mobility model moves the node
MoveNode ==
    /\ node_state # "none"
    /\ \E x \in {node_x - 1, node_x + 1} :
          /\ x \in 0..MaxX
          /\ node_x' = x
    /\ UNCHANGED <<node_state, connected_parent_id, client_connected,
                   client_backoff, client_retry_count, network_loop, link,
                   peer_state, brokervars, lifevars, queuevars>>
    /\ MeshFrame

\* the other sensor connects or loses its connection
PeerChange ==
    /\ peer_state \in {"scanning", "active"}
    /\ peer_state' = IF peer_state = "active" THEN "scanning" ELSE "active"
    /\ UNCHANGED <<node_x, node_state, connected_parent_id, client_connected,
                   client_backoff, client_retry_count, network_loop, link,
                   brokervars, lifevars, queuevars>>
    /\ MeshFrame

\* broker.failover_sequence up to its timeout: every connected client is
\* marked not connected
MeshBrokerCrash ==
    /\ node_state # "none"
    /\ is_alive
    /\ crashes < MaxCrashes
    /\ crashes' = crashes + 1
    /\ is_alive' = FALSE
    /\ last_failover_start' = env_now
    /\ client_connected' = IF SelfId \in connected_clients THEN FALSE
                           ELSE client_connected
    /\ connected_clients' = {}
    /\ UNCHANGED <<node_x, node_state, connected_parent_id, client_backoff,
                   client_retry_count, network_loop, link, peer_state,
                   last_failover_end, subscriptions, broker_retained,
                   client_queues, env_now, procs, published, received, owed,
                   replayed, wiped, left, lifevars, queuevars>>
    /\ MeshFrame

\* broker.failover_sequence after the downtime
MeshBrokerRecover ==
    /\ node_state # "none"
    /\ ~is_alive
    /\ is_alive' = TRUE
    /\ last_failover_end' = env_now
    /\ UNCHANGED <<meshvars, last_failover_start, subscriptions,
                   broker_retained, client_queues, connected_clients, env_now,
                   procs, published, received, crashes, owed, replayed, wiped,
                   left>>
    /\ MeshFrame

InitMesh ==
    /\ InitState("none", Configs({MaxCapacity}, {0}))
    /\ NoCall
    /\ NoRun
    /\ node_x \in 0..MaxX
    /\ node_state = "scanning"
    /\ connected_parent_id = NoParent
    /\ client_connected = FALSE
    /\ client_backoff = MqttBackoffMin
    /\ client_retry_count = 0
    /\ network_loop = "top"
    /\ link = NoLink
    /\ peer_state = "scanning"
    /\ node_active = TRUE
    /\ battery_low = FALSE
    /\ msg_queue = <<>>
    /\ sending = 0
    /\ enqueued = 0
    /\ handed = <<>>
    /\ requeued = FALSE

NextMesh ==
    \/ LoopDisconnected
    \/ LoopWake
    \/ AttemptConnect
    \/ ConnectCall
    \/ ConnectAck
    \/ BackoffDone
    \/ SendPing
    \/ SendPublish
    \/ PublishCall
    \/ PublishRaised
    \/ PublishAck
    \/ PublishRequeue
    \/ AppLoop
    \/ StopNode
    \/ ToggleConnection
    \/ MoveNode
    \/ PeerChange
    \/ MeshBrokerCrash
    \/ MeshBrokerRecover

SpecMesh == InitMesh /\ [][NextMesh]_vars

\* C26: the backoff of MqttClient starts at the minimum 1, is doubled, up to
\* the cap 10, when the wait of a failed connection attempt is over, is put
\* back to the minimum together with a retry counter of 0 by every
\* successful connect, changes in no other step, and lies between the
\* minimum and the cap in every state.
BackoffWaitEnds == network_loop = "backoff" /\ network_loop' = "top"

BecomesConnected == ~client_connected /\ client_connected'

C26_BackoffExponentialCapped ==
    /\ [](node_state # "none" =>
             /\ client_backoff >= MqttBackoffMin
             /\ client_backoff <= MqttBackoffCap)
    /\ [][node_state # "none" =>
             IF BackoffWaitEnds
             THEN client_backoff' = IF 2 * client_backoff <= MqttBackoffCap
                                    THEN 2 * client_backoff
                                    ELSE MqttBackoffCap
             ELSE IF BecomesConnected
             THEN client_backoff' = MqttBackoffMin /\ client_retry_count' = 0
             ELSE client_backoff' = client_backoff]_vars

\* the backoff went 1, 2, 4, 8 and is held at the cap after a fifth failure
C26_Witness ==
    /\ client_backoff = MqttBackoffCap
    /\ client_retry_count >= 5
    /\ network_loop = "top"

\* C27: the client becomes connected only at the end of a connection
\* attempt whose link check found a parent within the radio range, which
\* becomes its parent; an attempt made when no candidate parent is within
\* range leaves the client not connected, with the node scanning, waiting
\* for its backoff.
StartsAttempt ==
    /\ network_loop = "top"
    /\ network_loop' # "top"
    /\ ~client_connected
    /\ node_state # "disconnected"

NoParentInRange ==
    \A n \in {GateId, PeerId} :
        \/ Dist(node_x, PosOf(n)) > RangeM
        \/ n = PeerId /\ peer_state # "active"

C27_ConnectsOnlyWithinRange ==
    /\ [][BecomesConnected =>
             /\ network_loop = "ack"
             /\ link # NoLink
             /\ link[1] <= RangeM
             /\ connected_parent_id' = link[2]]_vars
    /\ [][(StartsAttempt /\ NoParentInRange) =>
             /\ ~client_connected'
             /\ node_state' = "scanning"
             /\ network_loop' = "backoff"]_vars
    /\ [](network_loop \in {"tx", "ack"} => link # NoLink /\ link[1] <= RangeM)

\* the node is out of the gateway's range, the other sensor is not active,
\* and an attempt has failed for want of a link
C27_Witness ==
    /\ network_loop = "backoff"
    /\ link = NoLink
    /\ node_state = "scanning"
    /\ ~client_connected
    /\ Dist(node_x, GatePos) > RangeM
    /\ peer_state = "scanning"

\* C28: a check_keep_alive that times a session out leaves that client's
\* state "disconnected" in the metrics, and a check_keep_alive that removes
\* an in-flight message whose retries are used up changes one of the
\* metrics a snapshot reports.
SnapshotMetrics ==
    <<send_events, delivery_events, duplicate_events, queue_drops,
      broker_queue_depth, client_states>>

TimesOut(i) == KeepAliveExpired(Cur, sessions[i])

RetriesUsedUp(i, k) ==
    /\ DeadlinePassed(sessions[i], k)
    /\ heap[sessions[i].inflight[k]].retries >= retry_limit

C28_LossesShowInMetrics ==
    /\ [][\A i \in 1..Len(sessions) :
             (IsCheckKeepAliveStep /\ TimesOut(i)) =>
                 /\ client_states[sessions[i].client_id] # "disconnected"
                 /\ client_states'[sessions[i].client_id] = "disconnected"]_vars
    /\ [][\A i \in 1..Len(sessions) :
             \A k \in DOMAIN sessions[i].inflight :
                 (IsCheckKeepAliveStep /\ RetriesUsedUp(i, k)) =>
                     SnapshotMetrics' # SnapshotMetrics]_vars

\* ================================== sessions that hold several filters
\* the topic filters a client may pass to subscribe
Filters == {TopicA, FilterA}

\* MQTTNetwork.subscribe, called with any of the filters
SubscribeTo(c, f) ==
    LET M == subscribe(Cur, c, f, config.nodes[c].qos)
    IN /\ HasSession(Cur, c)
       /\ M.delivery_events <= DeliveryLimit
       /\ Step(Op("subscribe", c), M, <<>>)

InitFilters == InitNet("none", Configs({MaxCapacity}, {0}))

NextFilters ==
    \/ \E c \in Clients : Connect(c)
    \/ \E c \in Clients : Disconnect(c)
    \/ \E c \in Clients : Publish(c)
    \/ \E c \in Clients, f \in Filters : SubscribeTo(c, f)
    \/ ProcessQueue
    \/ RunEvent

SpecFilters == InitFilters /\ [][NextFilters]_vars

\* C30: a process_queue step delivers each queued message either to nobody
\* (it was lost) or exactly once to every connected session that has a
\* filter matching its topic, however many of its filters match, and to no
\* other session.
Got(c, h) == Len(SelectSeq(delivered', LAMBDA d : d = <<c, h>>))

Wants(s, h) ==
    /\ s.connected
    /\ \E f \in DOMAIN s.subscriptions : Match(f, heap[h].topic)

C30_OneDeliveryPerSession ==
    [][IsProcessQueueStep =>
          \A j \in 1..Len(broker_queue) :
              LET h == broker_queue[j].msg
              IN \/ \A i \in 1..Len(sessions) : Got(sessions[i].client_id, h) = 0
                 \/ \A i \in 1..Len(sessions) :
                       Got(sessions[i].client_id, h) =
                           IF Wants(sessions[i], h) THEN 1 ELSE 0]_vars

\* C31: a check_keep_alive that finds a connected session silent for longer
\* than its keep-alive interval leaves it not connected with the client
\* state "reconnecting" in the metrics; a connected session whose silence is
\* at most the interval stays connected; and a session that was timed out
\* and is waiting for its reconnect is reported as "reconnecting".
SilentFor(s) == now - s.last_seen

C31_TimeoutGivesReconnecting ==
    /\ [][\A i \in 1..Len(sessions) :
             (IsCheckKeepAliveStep /\ sessions[i].connected) =>
                 IF SilentFor(sessions[i]) > sessions[i].keep_alive
                 THEN /\ ~sessions'[i].connected
                      /\ client_states'[sessions[i].client_id] = "reconnecting"
                 ELSE sessions'[i].connected]_vars
    /\ [](\A i \in 1..Len(sessions) :
             (~sessions[i].connected /\ sessions[i].next_reconnect # 0) =>
                 client_states[sessions[i].client_id] = "reconnecting")

\* C32: a check_keep_alive made at or after the reconnect time of a session
\* that a keep-alive timeout disconnected connects it again, with the
\* clean_session flag it had, one made before that time does not, and
\* check_keep_alive reconnects a session once for each of its timeouts: never
\* without a timeout that no connect has answered yet.
AwaitsReconnect(s) == ~s.connected /\ s.next_reconnect # 0

C32_ReconnectedOncePerTimeout ==
    /\ [][\A i \in 1..Len(sessions) :
             (IsCheckKeepAliveStep /\ AwaitsReconnect(sessions[i])) =>
                 /\ sessions'[i].connected = (now >= sessions[i].next_reconnect)
                 /\ sessions'[i].clean_session = sessions[i].clean_session]_vars
    /\ [](\A c \in Clients : due_reconnects[c] >= 0)

\* C33: in every state and for every session the message ids of the
\* in-flight map are the message ids of the retransmit-deadline map.
DeadlineIds(s) == {s.pending_retransmit[e].id : e \in 1..Len(s.pending_retransmit)}

PublishesIn(c) ==
    {h \in (Len(heap) + 1)..Len(heap') :
        heap'[h].msg_id # 0 /\ heap'[h].sender = c}

C34_PublishOnlyWhenConnected ==
    [][\A c \in Clients :
          (Disconnected(Cur, c) /\ PublishesIn(c) # {}) =>
              /\ send_events' = send_events
              /\ broker_queue' = broker_queue]_vars

\* C35: whenever a snapshot is taken, the broker queue depth it reports is
\* the number of messages in the broker queue at that instant.
TakesSnapshot == Len(snapshots') = Len(snapshots) + 1

C35_SnapshotDepthIsQueueLength ==
    [][TakesSnapshot =>
          snapshots'[Len(snapshots')].broker_queue_depth = Len(broker_queue')]_vars

\* C36: when a failover started by trigger_failover overlaps with the
\* configured failover of _broker_failover, no session is reconnected while
\* either outage is still in progress: the recovery of one outage connects a
\* session only when the other outage has ended too.
OutageInProgress == failover_active \/ Pending("broker_recover")

IsRecoveryStep ==
    \/ failover_active /\ ~failover_active'
    \/ Pending("broker_recover") /\ ~Pending("broker_recover")'

C36_NoReconnectDuringOutage ==
    [][\A i \in 1..Len(sessions) :
          (IsRecoveryStep /\ ~sessions[i].connected /\ sessions'[i].connected) =>
              ~OutageInProgress']_vars

\* C37: while the MqttBroker is down no client is registered as connected,
\* whatever connect calls were waiting out their acknowledgment latency when
\* it crashed, and is_alive is false for the whole downtime of every
\* failover_sequence that was started.
InDowntime ==
    \E i \in 1..Len(procs) : procs[i].kind = "failover_sequence"

C37_NoClientsWhileDown ==
    /\ ~is_alive => connected_clients = {}
    /\ InDowntime => ~is_alive

\* C38: a node manually disconnected with toggle_connection stays in state
\* "disconnected" with its MQTT client not connected until toggle_connection
\* is called again, whatever connection attempt was in progress at the
\* toggle; a node that dies meanwhile (stop, exhausted battery) is left aside.
TogglesBack ==
    /\ node_state = "disconnected"
    /\ node_state' = "scanning"
    /\ network_loop' = network_loop

C38_ManualDisconnectHolds ==
    /\ [](node_state = "disconnected" => ~client_connected)
    /\ [][(node_state = "disconnected" /\ ~TogglesBack /\ node_state' # "dead") =>
             /\ node_state' = "disconnected"
             /\ ~client_connected']_vars

\* C39: the state "dead" of a SensorNode is absorbing: once the battery is
\* exhausted or stop() was called, so that the state is "dead" and active is
\* false, no step of the application loop or of the MqttClient (connection
\* attempts, publishes, pings, link loss handling) changes the state; only
\* toggle_connection, which is neither, is left aside.
IsDead == node_state = "dead" /\ ~node_active

TogglesOff == node_state # "disconnected" /\ node_state' = "disconnected"

C39_DeadIsAbsorbing ==
    [][(IsDead /\ ~TogglesOff) => node_state' = "dead"]_vars

\* C40: an MqttClient never loses a queued QoS1 message and hands the
\* messages to the broker in the order they were enqueued: the messages the
\* broker accepted, the one being sent and the ones in the queue are, in
\* this order, exactly the messages enqueued so far, and a message that is
\* neither queued nor being sent was accepted by the broker.
Outstanding ==
    IF sending = 0 \/ (handed # <<>> /\ handed[Len(handed)] = sending)
    THEN <<>> ELSE <<sending>>

C40_QueuedMessagesKeptInOrder ==
    /\ handed \o Outstanding \o msg_queue = [k \in 1..enqueued |-> k]
    /\ network_loop \in {"pub_tx", "pub_wait", "pub_ack"} <=> sending # 0
    /\ network_loop = "pub_wait" => Outstanding = <<sending>>

\* a message was put back at the head of the queue, the broker crashed, and
\* two messages reached the broker all the same
C40_Witness ==
    /\ requeued
    /\ Len(handed) >= 2
    /\ crashes > 0

====
